---- MODULE Spec2Model ----
(***************************************************************************)
(* Workflow runner of simstudioai/sim (export-service templates):          *)
(*   main.py      admission middleware: request size check + RateLimiter;  *)
(*                startup, /health, /ready, /execute                       *)
(*   executor.py  WorkflowExecutor: Kahn scheduling, leaf execution with   *)
(*                retry/backoff, loop driver, run result                   *)
(*   resolver.py  ReferenceResolver                                        *)
(*   handlers/    start, api and the raising handlers, by their contract   *)
(*                towards the executor (return a value or raise); the      *)
(*                condition, function, variables and response handlers by  *)
(*                their code; the tool loop of the agent handler           *)
(*   tools.py     the file tools on a workspace directory                  *)
(*                                                                         *)
(* The specifications of the module:                                       *)
(*   SpecRL         the admission middleware under a monotone clock        *)
(*   Spec           one run of WorkflowExecutor.run on a workflow document *)
(*   FairSpec       the runs over loops of every kind, handler calls       *)
(*                  ending                                                 *)
(*   SpecResolver   one call of ReferenceResolver.resolve                  *)
(*   SpecCondition  one call of ConditionBlockHandler.execute or of        *)
(*                  _should_continue_loop                                  *)
(*   SpecResponse   one call of ResponseBlockHandler.execute               *)
(*   SpecServer     startup on a workflow file, then requests              *)
(*   SpecTools      one call of a file tool on a filesystem                *)
(*   SpecAgent      one call of AgentBlockHandler.execute                  *)
(*   SpecRequests   requests to /execute, interleaved between blocks       *)
(*   SpecFunction   one call of FunctionBlockHandler.execute on code that   *)
(*                  writes into its context                                *)
(***************************************************************************)
EXTENDS Integers, Sequences, FiniteSets, TLC

VARIABLES
    \* ---- main.py ----
    now,            \* time.time(), in ticks of 1/TicksPerSecond second
    requests,       \* RateLimiter.requests: client -> list of timestamps
    recent,         \* history: the last RATE_LIMIT_REQUESTS+1 admitted timestamps per client
    resp,           \* the middleware's answer to the last request
    \* ---- executor.py ----
    wf,             \* the workflow document (self.blocks, self.edges) and its environment
    pc,             \* position in run / _execute_loop / _execute_block
    execution_order,\* run: execution_order
    idx,            \* run: position of the for loop over execution_order
    block_outputs,  \* ctx.block_outputs: key -> output
    logs,           \* ctx.logs
    loop_states,    \* ctx.loop_states: loop id -> LoopState
    current_loop_id,\* ctx.current_loop_id
    loop,           \* locals of _execute_loop
    blk,            \* locals of _execute_block
    clock,          \* datetime.now(timezone.utc)
    final_output,   \* run: final_output
    result,         \* the value run returns
    hist,           \* history: what was scheduled, invoked, returned and finished
    \* ---- resolver.py, handlers/condition.py: one call of a function ----
    args,           \* the arguments of the call
    ret,            \* what the call returned
    \* ---- main.py: the server ----
    startup,        \* the startup event: not yet run, or the environment it ran in
    workflow_data,  \* the global workflow_data
    startup_warnings,\* the global startup_warnings
    served,         \* the request last served and the answer it got
    \* ---- tools.py ----
    fs,             \* the filesystem the native tools act on
    \* ---- handlers/agent.py ----
    agent,          \* locals of AgentBlockHandler.execute and of the provider loop
    \* ---- main.py execute: requests in flight ----
    heap,           \* the mutable mappings allocated so far, by identity
    runs            \* request -> the run it started: its context and position

rlvars == <<now, requests, recent, resp>>
exvars == <<wf, pc, execution_order, idx, block_outputs, logs, loop_states,
            current_loop_id, loop, blk, clock, final_output, result, hist>>
fnvars == <<args, ret>>
srvvars == <<startup, workflow_data, startup_warnings, served>>
sysvars == <<srvvars, fs, agent, heap, runs>>
vars == <<rlvars, exvars, fnvars, sysvars>>

None == "None"

(***************************************************************************)
(* Helpers on sequences and sets                                           *)
(***************************************************************************)
Range(s) == {s[i] : i \in 1..Len(s)}

Min(a, b) == IF a <= b THEN a ELSE b

Max(a, b) == IF a >= b THEN a ELSE b

SeqMin(s) == CHOOSE x \in Range(s) : \A y \in Range(s) : x <= y

Last(s, n) == IF Len(s) <= n THEN s ELSE SubSeq(s, Len(s) - n + 1, Len(s))

\* F applied to the value of x: the argument is evaluated once, before the
\* body runs, as in a Python call
ByValue(F(_), x) == CHOOSE y \in {F(v) : v \in {x}} : TRUE

\* [F(x) for x in xs]
RECURSIVE Each(_, _)
Each(F(_), xs) == IF xs = <<>> THEN <<>> ELSE <<F(xs[1])>> \o Each(F, Tail(xs))

Perms(S) == {p \in [1..Cardinality(S) -> S] : \A x \in S : \E i \in DOMAIN p : p[i] = x}

(***************************************************************************)
(* main.py: configuration, RateLimiter, rate_limit_and_size_middleware     *)
(***************************************************************************)
RATE_LIMIT_REQUESTS == 2

RATE_LIMIT_WINDOW == 2

TicksPerSecond == 2

MaxTime == 6

WindowTicks == RATE_LIMIT_WINDOW * TicksPerSecond

Clients == {"10.0.0.1", "unknown"}

Paths == {"/health", "/ready", "/execute"}

ContentLengths == {"absent", "small", "too_large"}

NoResp == [client |-> None, path |-> None, status |-> "none", retry_after |-> 0,
           in_window |-> 0, age |-> 0]

PrunedOff(ts, t) == ts

\* is_allowed, line 50-52: the timestamps kept by the pruning
Pruned(ts, t) == SelectSeq(ts, LAMBDA x : x > t - WindowTicks)

LimitReachedOff(ts) == Len(ts) > RATE_LIMIT_REQUESTS

\* is_allowed, line 54
LimitReached(ts) == Len(ts) >= RATE_LIMIT_REQUESTS

\* get_retry_after, read at time t
get_retry_after(ts, t) ==
    IF Len(ts) = 0 THEN 0
    ELSE Max(0, (WindowTicks - (t - SeqMin(ts))) \div TicksPerSecond)

\* The clock advances (monotone).
Tick ==
    /\ now < MaxTime
    /\ now' = now + 1
    /\ UNCHANGED <<requests, recent, resp, exvars, fnvars, sysvars>>

HealthRequestCounted(c, p) ==
    /\ p \in {"/health", "/ready"}
    /\ resp' = [NoResp EXCEPT !.client = c, !.path = p, !.status = "call_next"]
    /\ requests' = [requests EXCEPT ![c] = Append(@, now)]
    /\ UNCHANGED <<now, recent>>

\* /health and /ready bypass the middleware's checks.
HealthRequest(c, p) ==
    /\ p \in {"/health", "/ready"}
    /\ resp' = [NoResp EXCEPT !.client = c, !.path = p, !.status = "call_next"]
    /\ UNCHANGED <<now, requests, recent>>

\* content-length above MAX_REQUEST_SIZE: 413 before the limiter is consulted.
TooLargeRequest(c, p) ==
    /\ p \notin {"/health", "/ready"}
    /\ resp' = [NoResp EXCEPT !.client = c, !.path = p, !.status = "413"]
    /\ UNCHANGED <<now, requests, recent>>

\* is_allowed returns True: the timestamp is recorded, the endpoint runs.
AdmittedRequest(c, p) ==
    /\ p \notin {"/health", "/ready"}
    /\ LET kept == Pruned(requests[c], now) IN
        /\ ~LimitReached(kept)
        /\ requests' = [requests EXCEPT ![c] = Append(kept, now)]
        /\ recent' = [recent EXCEPT ![c] = Last(Append(@, now), RATE_LIMIT_REQUESTS + 1)]
        /\ resp' = [NoResp EXCEPT !.client = c, !.path = p, !.status = "call_next",
                                  !.in_window = Len(kept)]
    /\ UNCHANGED now

LimitedRequestCounted(c, p, dt) ==
    /\ p \notin {"/health", "/ready"}
    /\ now + dt <= MaxTime
    /\ LET kept == Pruned(requests[c], now) IN
        /\ LimitReached(kept)
        /\ requests' = [requests EXCEPT ![c] = Append(kept, now)]
        /\ now' = now + dt
        /\ resp' = [client |-> c, path |-> p, status |-> "429",
                    retry_after |-> get_retry_after(kept, now + dt),
                    in_window |-> Len(kept),
                    age |-> IF Len(kept) = 0 THEN 0 ELSE now + dt - SeqMin(kept)]
    /\ UNCHANGED recent

\* is_allowed returns False: 429 with the hint of get_retry_after, which reads
\* the clock again (dt ticks later).
LimitedRequest(c, p, dt) ==
    /\ p \notin {"/health", "/ready"}
    /\ now + dt <= MaxTime
    /\ LET kept == Pruned(requests[c], now) IN
        /\ LimitReached(kept)
        /\ requests' = [requests EXCEPT ![c] = kept]
        /\ now' = now + dt
        /\ resp' = [client |-> c, path |-> p, status |-> "429",
                    retry_after |-> get_retry_after(kept, now + dt),
                    in_window |-> Len(kept),
                    age |-> IF Len(kept) = 0 THEN 0 ELSE now + dt - SeqMin(kept)]
    /\ UNCHANGED recent

\* rate_limit_and_size_middleware on a request of client c for path p with
\* content-length cl; the clock read by get_retry_after is dt later, dt in dts
Admission(c, p, cl, dts) ==
    \/ HealthRequest(c, p)
    \/ cl = "too_large" /\ TooLargeRequest(c, p)
    \/ cl # "too_large" /\ AdmittedRequest(c, p)
    \/ cl # "too_large" /\ \E dt \in dts : LimitedRequest(c, p, dt)

Request ==
    /\ \E c \in Clients, p \in Paths, cl \in ContentLengths : Admission(c, p, cl, 0..1)
    /\ UNCHANGED <<exvars, fnvars, sysvars>>

\* The startup event has not run.
NotStarted == [file |-> None, has_api_key |-> FALSE]

\* No request has been served.
NotServed == [client |-> None, path |-> None, content_length |-> None,
              answer |-> [code |-> "none", body |-> [none |-> TRUE], engine |-> FALSE]]

\* Nothing but the part under study is active: the server has not started,
\* no tool has touched the filesystem, no agent and no request is running.
InitSysIdle ==
    /\ startup = NotStarted
    /\ workflow_data = None
    /\ startup_warnings = <<>>
    /\ served = NotServed
    /\ fs = None
    /\ agent = None
    /\ heap = <<>>
    /\ runs = <<>>

InitRL ==
    /\ now = 0
    /\ requests = [c \in Clients |-> <<>>]
    /\ recent = [c \in Clients |-> <<>>]
    /\ resp = NoResp

(***************************************************************************)
(* Strings that the code inspects are sequences of one-character strings.  *)
(***************************************************************************)
UpperCase == <<"A","B","C","D","E","F","G","H","I","J","K","L","M",
               "N","O","P","Q","R","S","T","U","V","W","X","Y","Z">>

LowerCase == <<"a","b","c","d","e","f","g","h","i","j","k","l","m",
               "n","o","p","q","r","s","t","u","v","w","x","y","z">>

\* str.lower(), one character
LowerChar(c) ==
    IF \E i \in 1..26 : UpperCase[i] = c
    THEN LowerCase[CHOOSE i \in 1..26 : UpperCase[i] = c]
    ELSE c

\* str.lower()
Lower(s) == [i \in 1..Len(s) |-> LowerChar(s[i])]

\* t in s
Contains(s, t) == \E i \in 0..(Len(s) - Len(t)) : SubSeq(s, i + 1, i + Len(t)) = t

normalizedOff(name) == Lower(name)

\* block.name.lower().replace(' ', '_')
normalized(name) == [i \in 1..Len(name) |-> IF name[i] = " " THEN "_" ELSE LowerChar(name[i])]

(***************************************************************************)
(* Python values, as the resolver and the handlers see them                *)
(***************************************************************************)
\* A value is tagged with its type; a list holds its items and a dict its
\* entries in insertion order.
PyNone == [t |-> "none", b |-> FALSE, n |-> 0, s |-> <<>>, kids |-> <<>>]

PyBool(b) == [t |-> "bool", b |-> b, n |-> 0, s |-> <<>>, kids |-> <<>>]

PyInt(n) == [t |-> "int", b |-> FALSE, n |-> n, s |-> <<>>, kids |-> <<>>]

PyStr(s) == [t |-> "str", b |-> FALSE, n |-> 0, s |-> s, kids |-> <<>>]

PyList(items) ==
    [t |-> "list", b |-> FALSE, n |-> 0, s |-> <<>>,
     kids |-> [i \in 1..Len(items) |-> [k |-> <<>>, v |-> items[i]]]]

PyDict(entries) == [t |-> "dict", b |-> FALSE, n |-> 0, s |-> <<>>, kids |-> entries]

Entry(k, v) == [k |-> k, v |-> v]

\* bool(value)
Truthy(v) ==
    CASE v.t = "none" -> FALSE
      [] v.t = "bool" -> v.b
      [] v.t = "int"  -> v.n # 0
      [] v.t = "str"  -> v.s # <<>>
      [] OTHER        -> v.kids # <<>>

\* dict.get(key): the value of the last entry with that key, or None
DictGet(d, key) ==
    IF \E i \in DOMAIN d.kids : d.kids[i].k = key
    THEN d.kids[CHOOSE i \in DOMAIN d.kids :
                   /\ d.kids[i].k = key
                   /\ \A j \in DOMAIN d.kids : d.kids[j].k = key => j <= i].v
    ELSE PyNone

Digits == <<"0", "1", "2", "3", "4", "5", "6", "7", "8", "9">>

IsDigit(c) == \E i \in 1..10 : Digits[i] = c

DigitValue(c) == (CHOOSE i \in 1..10 : Digits[i] = c) - 1

\* str.isdigit()
isdigit(s) == s # <<>> /\ \A i \in DOMAIN s : IsDigit(s[i])

\* int(s) for a string of digits
RECURSIVE ParseDigits(_)
ParseDigits(s) ==
    IF s = <<>> THEN 0
    ELSE 10 * ParseDigits(SubSeq(s, 1, Len(s) - 1)) + DigitValue(s[Len(s)])

\* str(n) for an int
RECURSIVE NatToStr(_)
NatToStr(n) == IF n < 10 THEN <<Digits[n + 1]>> ELSE NatToStr(n \div 10) \o <<Digits[(n % 10) + 1]>>

IntToStr(n) == IF n < 0 THEN <<"-">> \o NatToStr(0 - n) ELSE NatToStr(n)

\* json.dumps(value) with the default separators ', ' and ': '
RECURSIVE JsonDumps(_)
RECURSIVE JsonItems(_, _, _)
JsonItems(kids, i, keyed) ==
    IF i > Len(kids) THEN <<>>
    ELSE (IF i > 1 THEN <<",", " ">> ELSE <<>>)
         \o (IF keyed THEN <<"\"">> \o kids[i].k \o <<"\"", ":", " ">> ELSE <<>>)
         \o JsonDumps(kids[i].v)
         \o JsonItems(kids, i + 1, keyed)

JsonDumps(v) ==
    CASE v.t = "none" -> <<"n", "u", "l", "l">>
      [] v.t = "bool" -> IF v.b THEN <<"t", "r", "u", "e">> ELSE <<"f", "a", "l", "s", "e">>
      [] v.t = "int"  -> IntToStr(v.n)
      [] v.t = "str"  -> <<"\"">> \o v.s \o <<"\"">>
      [] v.t = "list" -> <<"[">> \o JsonItems(v.kids, 1, FALSE) \o <<"]">>
      [] OTHER        -> <<"{">> \o JsonItems(v.kids, 1, TRUE) \o <<"}">>

\* str.replace(old, new)
RECURSIVE replace(_, _, _)
replace(s, old, new) ==
    IF Len(s) < Len(old) THEN s
    ELSE IF SubSeq(s, 1, Len(old)) = old
         THEN new \o replace(SubSeq(s, Len(old) + 1, Len(s)), old, new)
         ELSE <<s[1]>> \o replace(Tail(s), old, new)

(***************************************************************************)
(* resolver.py: ReferenceResolver                                          *)
(***************************************************************************)
IsNameStart(c) == c = "_" \/ \E i \in 1..26 : UpperCase[i] = c \/ LowerCase[i] = c

IsNameChar(c) == IsNameStart(c) \/ IsDigit(c)

IsQuote(c) == c = "\"" \/ c = "'"

\* [a-zA-Z0-9_]* from position i: the position after the run
RECURSIVE NameRun(_, _)
NameRun(s, i) == IF i <= Len(s) /\ IsNameChar(s[i]) THEN NameRun(s, i + 1) ELSE i

\* [^"']+ from position i: the position after the run
RECURSIVE KeyRun(_, _)
KeyRun(s, i) == IF i <= Len(s) /\ ~IsQuote(s[i]) THEN KeyRun(s, i + 1) ELSE i

\* (?:\.NAME|\[["'][^"']+["']\])* from position i: the position after the
\* last segment
RECURSIVE Segments(_, _)
Segments(s, i) ==
    LET From(j) == Segments(s, j)
        Key(k) == IF k > i + 2 /\ k + 1 <= Len(s) /\ IsQuote(s[k]) /\ s[k + 1] = "]"
                  THEN Segments(s, k + 2)
                  ELSE i
    IN  IF i + 1 <= Len(s) /\ s[i] = "." /\ IsNameStart(s[i + 1])
        THEN ByValue(From, NameRun(s, i + 1))
        ELSE IF i + 1 <= Len(s) /\ s[i] = "[" /\ IsQuote(s[i + 1])
             THEN ByValue(Key, KeyRun(s, i + 2))
             ELSE i

\* REFERENCE_PATTERN at position i: the position of the closing '>', or 0
MatchEnd(s, i) ==
    LET From(j) == Segments(s, j)
        Closed(e) == IF e <= Len(s) /\ s[e] = ">" THEN e ELSE 0
    IN  IF i + 1 <= Len(s) /\ s[i] = "<" /\ IsNameStart(s[i + 1])
        THEN ByValue(Closed, ByValue(From, NameRun(s, i + 1)))
        ELSE 0

\* str.strip() for blanks
RECURSIVE strip(_)
strip(s) ==
    IF s # <<>> /\ s[1] = " " THEN strip(Tail(s))
    ELSE IF s # <<>> /\ s[Len(s)] = " " THEN strip(SubSeq(s, 1, Len(s) - 1))
    ELSE s

\* _parse_path, the while loop from position i
RECURSIVE ParsePath(_, _, _, _)
ParsePath(path, i, current, parts) ==
    LET flushed == IF current # <<>> THEN Append(parts, current) ELSE parts
    IN  IF i > Len(path) THEN flushed
        ELSE IF path[i] = "." THEN ParsePath(path, i + 1, <<>>, flushed)
        ELSE IF path[i] = "["
             THEN IF i + 1 <= Len(path) /\ IsQuote(path[i + 1])
                  THEN LET RECURSIVE KeyEnd(_)
                           KeyEnd(j) == IF j <= Len(path) /\ path[j] # path[i + 1]
                                        THEN KeyEnd(j + 1) ELSE j
                           After(e) == IF e + 1 <= Len(path) /\ path[e + 1] = "]" THEN e + 2 ELSE e + 1
                           Key(e) == ParsePath(path, After(e), <<>>, Append(flushed, SubSeq(path, i + 2, e - 1)))
                       IN  ByValue(Key, KeyEnd(i + 2))
                  ELSE ParsePath(path, i + 1, <<>>, flushed)
             ELSE ParsePath(path, i + 1, Append(current, path[i]), parts)

_parse_path(path) == ParsePath(path, 1, <<>>, <<>>)

\* An ExecutionContext as the resolver reads it.
Context(inputs, variables, outputs) ==
    [inputs |-> inputs, workflow_variables |-> variables, block_outputs |-> outputs]

\* ctx.block_outputs.get(key)
OutputsGet(outputs, key) == IF key \in DOMAIN outputs THEN outputs[key] ELSE PyNone

\* _lookup_reference, lines 112-124: navigate the remaining path
RECURSIVE Navigate(_, _)
Navigate(current, parts) ==
    IF parts = <<>> THEN current
    ELSE IF current.t = "none" THEN PyNone
    ELSE LET Rest(next) == Navigate(next, Tail(parts))
             At(at) == IF at < Len(current.kids) THEN current.kids[at + 1].v ELSE PyNone
         IN  IF current.t = "dict" THEN ByValue(Rest, DictGet(current, parts[1]))
             ELSE IF current.t = "list" /\ isdigit(parts[1])
                  THEN ByValue(Rest, ByValue(At, ParseDigits(parts[1])))
             ELSE PyNone

\* _lookup_reference
_lookup_reference(path, ctx) ==
    LET Lookup(parts) ==
            IF parts = <<>> THEN PyNone
            ELSE Navigate(
                    CASE parts[1] = <<"s", "t", "a", "r", "t">> -> ctx.inputs
                      [] parts[1] = <<"v", "a", "r", "i", "a", "b", "l", "e">> -> ctx.workflow_variables
                      [] OTHER ->
                           LET first == OutputsGet(ctx.block_outputs, normalized(parts[1]))
                           IN  IF Truthy(first) THEN first
                               ELSE OutputsGet(ctx.block_outputs, parts[1]),
                    Tail(parts))
    IN  ByValue(Lookup, _parse_path(path))

\* _resolve_string, replace_ref: the text an embedded reference becomes
replace_ref(found) ==
    CASE found.t = "none" -> <<"n", "u", "l", "l">>
      [] found.t = "bool" -> IF found.b THEN <<"T", "r", "u", "e">>
                              ELSE <<"F", "a", "l", "s", "e">>
      [] found.t \in {"dict", "list"} -> JsonDumps(found)
      [] found.t = "int" -> IntToStr(found.n)
      [] OTHER -> found.s

\* REFERENCE_PATTERN.sub(replace_ref, value) from position i
RECURSIVE Substitute(_, _, _)
Substitute(value, i, ctx) ==
    LET Match(e) ==
            IF e > 0
            THEN ByValue(replace_ref, _lookup_reference(SubSeq(value, i + 1, e - 1), ctx))
                 \o Substitute(value, e + 1, ctx)
            ELSE <<value[i]>> \o Substitute(value, i + 1, ctx)
    IN  IF i > Len(value) THEN <<>> ELSE ByValue(Match, MatchEnd(value, i))

_resolve_stringOff(value, ctx) == PyStr(Substitute(value, 1, ctx))

\* _resolve_string
_resolve_string(value, ctx) ==
    LET Resolve(text) ==
            LET Stripped(whole) ==
                    IF whole # <<>> /\ MatchEnd(whole, 1) = Len(whole)
                    THEN _lookup_reference(SubSeq(whole, 2, Len(whole) - 1), ctx)
                    ELSE PyStr(Substitute(text, 1, ctx))
            IN  ByValue(Stripped, strip(text))
    IN  ByValue(Resolve, value)

\* resolve
RECURSIVE resolve(_, _)
resolve(value, ctx) ==
    CASE value.t = "str" -> _resolve_string(value.s, ctx)
      [] value.t \in {"dict", "list"} ->
            [value EXCEPT !.kids = [i \in DOMAIN value.kids |->
                                       [k |-> value.kids[i].k,
                                        v |-> resolve(value.kids[i].v, ctx)]]]
      [] OTHER -> value

(***************************************************************************)
(* Python expressions: ast.parse(expr, mode='eval') on the expressions    *)
(* that conditions are written in                                          *)
(***************************************************************************)
\* The grammar is the part of Python's that the evaluators accept: operands
\* and operators are written with blanks between them; an operand is an
\* integer, a negated operand, a dotted name or a call NAME(operand); an
\* expression combines comparison chains of sums with not, and, or.  Sums
\* are read left to right, which differs from Python's tree only where an
\* operator that both evaluators reject is present.
Node(k, n, s, ops, kids) == [k |-> k, n |-> n, s |-> s, ops |-> ops, kids |-> kids]

SyntaxError == Node("SyntaxError", 0, <<>>, <<>>, <<>>)

Keywords == {<<"n", "o", "t">>, <<"a", "n", "d">>, <<"o", "r">>, <<"i", "n">>, <<"i", "s">>, <<"i", "f">>, <<"e", "l", "s", "e">>, <<"f", "o", "r">>, <<"l", "a", "m", "b", "d", "a">>}

CompareTokens == {<<"=", "=">>, <<"!", "=">>, <<"<">>, <<"<", "=">>, <<">">>, <<">", "=">>, <<"i", "n">>, <<"i", "s">>}

BinaryTokens == {<<"+">>, <<"-">>, <<"*">>, <<"/">>, <<"%">>}

\* The blank-separated tokens of a text, the token in progress last
RECURSIVE Tokens(_, _, _)
Tokens(s, i, current) ==
    LET flushed == IF current # <<>> THEN <<current>> ELSE <<>>
    IN  IF i > Len(s) THEN flushed
        ELSE IF s[i] = " " THEN flushed \o Tokens(s, i + 1, <<>>)
        ELSE Tokens(s, i + 1, Append(current, s[i]))

IsName(tok) ==
    /\ tok # <<>>
    /\ IsNameStart(tok[1])
    /\ \A i \in DOMAIN tok : IsNameChar(tok[i])
    /\ tok \notin Keywords

\* The first position of a character in a token, or 0
IndexOf(tok, c) ==
    IF \E i \in DOMAIN tok : tok[i] = c
    THEN CHOOSE i \in DOMAIN tok : tok[i] = c /\ \A j \in 1..(i - 1) : tok[j] # c
    ELSE 0

\* The last position of a character in a token, or 0
LastIndexOf(tok, c) ==
    IF \E i \in DOMAIN tok : tok[i] = c
    THEN CHOOSE i \in DOMAIN tok : tok[i] = c /\ \A j \in (i + 1)..Len(tok) : tok[j] # c
    ELSE 0

\* An operand: 12, -x, a.b.c, f(x), f()
RECURSIVE Operand(_)
Operand(tok) ==
    LET Negated(operand) ==
            IF operand = SyntaxError THEN SyntaxError
            ELSE Node("UnaryOp", 0, <<"-">>, <<>>, <<operand>>)
        Call(open) ==
            LET inner == IF open > 0 THEN SubSeq(tok, open + 1, Len(tok) - 1) ELSE <<>>
                Applied(func) ==
                    LET With(arg) == IF arg = SyntaxError THEN SyntaxError
                                     ELSE Node("Call", 0, <<>>, <<>>, <<func, arg>>)
                    IN  IF func = SyntaxError \/ func.k \notin {"Name", "Attribute"} THEN SyntaxError
                        ELSE IF inner = <<>> THEN Node("Call", 0, <<>>, <<>>, <<func>>)
                        ELSE ByValue(With, Operand(inner))
            IN  ByValue(Applied, IF open > 1 THEN Operand(SubSeq(tok, 1, open - 1)) ELSE SyntaxError)
        Dotted(dot) ==
            LET attr == IF dot > 0 THEN SubSeq(tok, dot + 1, Len(tok)) ELSE <<>>
                Of(value) ==
                    IF value = SyntaxError \/ value.k \notin {"Name", "Attribute"} \/ ~IsName(attr)
                    THEN SyntaxError
                    ELSE Node("Attribute", 0, attr, <<>>, <<value>>)
            IN  ByValue(Of, IF dot > 1 THEN Operand(SubSeq(tok, 1, dot - 1)) ELSE SyntaxError)
    IN  IF tok = <<>> THEN SyntaxError
        ELSE IF isdigit(tok) THEN Node("Constant", ParseDigits(tok), <<>>, <<>>, <<>>)
        ELSE IF tok[1] = "-" THEN ByValue(Negated, Operand(Tail(tok)))
        ELSE IF tok[Len(tok)] = ")" THEN ByValue(Call, IndexOf(tok, "("))
        ELSE IF IsName(tok) THEN Node("Name", 0, tok, <<>>, <<>>)
        ELSE ByValue(Dotted, LastIndexOf(tok, "."))

\* operand (+|-|*|/|%) operand ..., read left to right
RECURSIVE Sum(_)
Sum(ts) ==
    LET op == ts[Len(ts) - 1]
        Binary(left) ==
            LET With(right) ==
                    IF left = SyntaxError \/ right = SyntaxError \/ op \notin BinaryTokens
                    THEN SyntaxError
                    ELSE Node("BinOp", 0, op, <<>>, <<left, right>>)
            IN  ByValue(With, Operand(ts[Len(ts)]))
    IN  IF ts = <<>> THEN SyntaxError
        ELSE IF Len(ts) = 1 THEN Operand(ts[1])
        ELSE IF Len(ts) = 2 THEN SyntaxError
        ELSE ByValue(Binary, Sum(SubSeq(ts, 1, Len(ts) - 2)))

\* The comparison operator that starts at position i of the tokens, with
\* the number of tokens it takes: ==, in, not in, is not, ...
CompareAt(ts, i) ==
    IF i + 1 <= Len(ts) /\ ts[i] = <<"n", "o", "t">> /\ ts[i + 1] = <<"i", "n">>
    THEN [op |-> <<"n", "o", "t", " ", "i", "n">>, len |-> 2]
    ELSE IF i + 1 <= Len(ts) /\ ts[i] = <<"i", "s">> /\ ts[i + 1] = <<"n", "o", "t">>
    THEN [op |-> <<"i", "s", " ", "n", "o", "t">>, len |-> 2]
    ELSE IF ts[i] \in CompareTokens THEN [op |-> ts[i], len |-> 1]
    ELSE [op |-> <<>>, len |-> 0]

\* sum (op sum)*: the operands and operators from position i on, the
\* operand in progress starting at position from
RECURSIVE Chain(_, _, _)
Chain(ts, from, i) ==
    LET Link(at) ==
            LET Rest(rest) == [ops |-> <<at.op>> \o rest.ops,
                               kids |-> <<Sum(SubSeq(ts, from, i - 1))>> \o rest.kids]
            IN  IF at.len = 0 THEN Chain(ts, from, i + 1)
                ELSE ByValue(Rest, Chain(ts, i + at.len, i + at.len))
    IN  IF i > Len(ts)
        THEN [ops |-> <<>>, kids |-> <<Sum(SubSeq(ts, from, Len(ts)))>>]
        ELSE ByValue(Link, CompareAt(ts, i))

Comparison(ts) ==
    LET Compare(chain) ==
            IF \E i \in DOMAIN chain.kids : chain.kids[i] = SyntaxError THEN SyntaxError
            ELSE IF chain.ops = <<>> THEN chain.kids[1]
            ELSE Node("Compare", 0, <<>>, chain.ops, chain.kids)
    IN  ByValue(Compare, Chain(ts, 1, 1))

RECURSIVE Inversion(_)
Inversion(ts) ==
    LET Negated(operand) ==
            IF operand = SyntaxError THEN SyntaxError
            ELSE Node("UnaryOp", 0, <<"n", "o", "t">>, <<>>, <<operand>>)
    IN  IF ts # <<>> /\ ts[1] = <<"n", "o", "t">>
        THEN ByValue(Negated, Inversion(Tail(ts)))
        ELSE Comparison(ts)

\* The runs of tokens between the occurrences of a keyword
RECURSIVE SplitAt(_, _, _, _)
SplitAt(ts, word, from, i) ==
    IF i > Len(ts) THEN <<SubSeq(ts, from, Len(ts))>>
    ELSE IF ts[i] = word THEN <<SubSeq(ts, from, i - 1)>> \o SplitAt(ts, word, i + 1, i + 1)
    ELSE SplitAt(ts, word, from, i + 1)

\* a (word b)*, the operands parsed by the level below
BoolOp(word, Level(_), ts) ==
    LET Combined(operands) ==
            IF \E i \in DOMAIN operands : operands[i] = SyntaxError THEN SyntaxError
            ELSE IF Len(operands) = 1 THEN operands[1]
            ELSE Node("BoolOp", 0, word, <<>>, operands)
    IN  ByValue(Combined, Each(Level, SplitAt(ts, word, 1, 1)))

Conjunction(ts) == BoolOp(<<"a", "n", "d">>, Inversion, ts)

Disjunction(ts) == BoolOp(<<"o", "r">>, Conjunction, ts)

\* ast.parse(expr, mode='eval')
ast_parse(expr) == ByValue(Disjunction, Tokens(expr, 1, <<>>))

(***************************************************************************)
(* The two evaluators: executor.py _safe_eval_condition and                *)
(* handlers/condition.py _safe_eval_with_context                           *)
(***************************************************************************)
\* What an evaluation gives when it raises
Raised == [t |-> "raise", b |-> FALSE, n |-> 0, s |-> <<>>, kids |-> <<>>]

IsNumber(v) == v.t \in {"int", "bool"}

\* A bool is an int
NumberOf(v) == IF v.t = "bool" THEN (IF v.b THEN 1 ELSE 0) ELSE v.n

\* operator.eq
PyEq(a, b) == IF IsNumber(a) /\ IsNumber(b) THEN NumberOf(a) = NumberOf(b) ELSE a = b

\* len(value)
PyLen(v) ==
    CASE v.t = "str" -> PyInt(Len(v.s))
      [] v.t \in {"list", "dict"} -> PyInt(Len(v.kids))
      [] OTHER -> Raised

\* a in b
PyIn(a, b) ==
    CASE b.t = "list" -> PyBool(\E i \in DOMAIN b.kids : PyEq(a, b.kids[i].v))
      [] b.t = "dict" -> PyBool(a.t = "str" /\ \E i \in DOMAIN b.kids : b.kids[i].k = a.s)
      [] b.t = "str" /\ a.t = "str" -> PyBool(Contains(b.s, a.s))
      [] OTHER -> Raised

\* ops[type(op)](left, right); an ordering or a sum of values that are not
\* numbers raises
Apply(op, left, right) ==
    CASE op = <<"=", "=">> -> PyBool(PyEq(left, right))
      [] op = <<"!", "=">> -> PyBool(~PyEq(left, right))
      [] op = <<"i", "n">> -> PyIn(left, right)
      [] op = <<"n", "o", "t", " ", "i", "n">> ->
            IF PyIn(left, right) = Raised THEN Raised ELSE PyBool(~PyIn(left, right).b)
      [] ~(IsNumber(left) /\ IsNumber(right)) -> Raised
      [] op = <<"<">> -> PyBool(NumberOf(left) < NumberOf(right))
      [] op = <<"<", "=">> -> PyBool(NumberOf(left) <= NumberOf(right))
      [] op = <<">">> -> PyBool(NumberOf(left) > NumberOf(right))
      [] op = <<">", "=">> -> PyBool(NumberOf(left) >= NumberOf(right))
      [] op = <<"+">> -> PyInt(NumberOf(left) + NumberOf(right))
      [] op = <<"-">> -> PyInt(NumberOf(left) - NumberOf(right))
      [] OTHER -> Raised

\* The functions a Call may name, applied
ApplyCall(name, arg) ==
    CASE name = <<"l", "e", "n">> -> PyLen(arg)
      [] name = <<"b", "o", "o", "l">> -> PyBool(Truthy(arg))
      [] name = <<"i", "n", "t">> ->
            IF IsNumber(arg) THEN PyInt(NumberOf(arg))
            ELSE IF arg.t = "str" /\ isdigit(arg.s) THEN PyInt(ParseDigits(arg.s))
            ELSE Raised
      [] name = <<"s", "t", "r">> /\ arg.t \in {"str", "int"} -> PyStr(replace_ref(arg))
      [] OTHER -> Raised

\* What each evaluator admits: the names it knows, the operators of its
\* ops table, the functions it calls, and whether it reads attributes.
ExecutorEvaluator ==
    [context |-> <<>>,
     ops |-> {<<"=", "=">>, <<"!", "=">>, <<"<">>, <<"<", "=">>, <<">">>, <<">", "=">>, <<"+">>, <<"-">>},
     calls |-> {<<"l", "e", "n">>},
     attribute |-> FALSE]

HandlerEvaluator(context) ==
    [context |-> context,
     ops |-> {<<"=", "=">>, <<"!", "=">>, <<"<">>, <<"<", "=">>, <<">">>, <<">", "=">>, <<"+">>, <<"-">>, <<"i", "n">>, <<"n", "o", "t", " ", "i", "n">>},
     calls |-> {<<"l", "e", "n">>, <<"s", "t", "r">>, <<"i", "n", "t">>, <<"b", "o", "o", "l">>},
     attribute |-> TRUE]

\* Compare: the loop over zip(node.ops, node.comparators) from position i,
\* on the values of the operands
RECURSIVE CompareFrom(_, _, _, _)
CompareFrom(node, i, values, ev) ==
    LET Held(holds) ==
            IF values[i + 1] = Raised \/ node.ops[i] \notin ev.ops \/ holds = Raised THEN Raised
            ELSE IF ~Truthy(holds) THEN PyBool(FALSE)
            ELSE CompareFrom(node, i + 1, values, ev)
    IN  IF i > Len(node.ops) THEN PyBool(TRUE)
        ELSE ByValue(Held, Apply(node.ops[i], values[i], values[i + 1]))

\* safe_eval_node
RECURSIVE safe_eval_node(_, _)
safe_eval_node(node, ev) ==
    LET Eval(kid) == safe_eval_node(kid, ev)
        Of(values) ==
            CASE node.k = "Constant" -> PyInt(node.n)
              [] node.k = "Name" ->
                    IF node.s = <<"T", "r", "u", "e">> THEN PyBool(TRUE)
                    ELSE IF node.s = <<"F", "a", "l", "s", "e">> THEN PyBool(FALSE)
                    ELSE IF node.s = <<"N", "o", "n", "e">> THEN PyNone
                    ELSE IF node.s \in DOMAIN ev.context THEN ev.context[node.s]
                    ELSE Raised
              [] node.k = "Attribute" /\ ev.attribute ->
                    IF values[1] = Raised THEN Raised
                    ELSE IF values[1].t = "dict" THEN DictGet(values[1], node.s)
                    ELSE PyNone
              [] node.k = "Compare" ->
                    IF values[1] = Raised THEN Raised ELSE CompareFrom(node, 1, values, ev)
              [] node.k = "BoolOp" ->
                    IF \E i \in DOMAIN values : values[i] = Raised THEN Raised
                    ELSE IF node.s = <<"a", "n", "d">> THEN PyBool(\A i \in DOMAIN values : Truthy(values[i]))
                    ELSE PyBool(\E i \in DOMAIN values : Truthy(values[i]))
              [] node.k = "UnaryOp" ->
                    IF values[1] = Raised THEN Raised
                    ELSE IF node.s = <<"n", "o", "t">> THEN PyBool(~Truthy(values[1]))
                    ELSE IF IsNumber(values[1]) THEN PyInt(0 - NumberOf(values[1]))
                    ELSE Raised
              [] node.k = "BinOp" ->
                    IF values[1] = Raised \/ values[2] = Raised \/ node.s \notin ev.ops THEN Raised
                    ELSE Apply(node.s, values[1], values[2])
              [] node.k = "Call" ->
                    IF node.kids[1].k = "Name" /\ node.kids[1].s \in ev.calls /\ Len(node.kids) = 2
                    THEN IF values[2] = Raised THEN Raised
                         ELSE ApplyCall(node.kids[1].s, values[2])
                    ELSE Raised
              [] OTHER -> Raised
    IN  ByValue(Of, Each(Eval, node.kids))

\* tree = ast.parse(expr, mode='eval'); bool(safe_eval_node(tree)): either
\* may raise
EvalExpression(expr, ev) ==
    LET Bool(value) == IF value = Raised THEN Raised ELSE PyBool(Truthy(value))
        Eval(tree) == safe_eval_node(tree, ev)
    IN  ByValue(Bool, ByValue(Eval, ast_parse(expr)))

\* except Exception: return False
OrFalse(value) == IF value = Raised THEN FALSE ELSE value.b

(***************************************************************************)
(* handlers/condition.py: ConditionBlockHandler                            *)
(***************************************************************************)
\* dict.get(key, default)
DictGetOr(d, key, default) ==
    IF \E i \in DOMAIN d.kids : d.kids[i].k = key THEN DictGet(d, key) ELSE default

\* _evaluate, lines 88-92: eval_context
eval_context(ctx) ==
    [k \in {<<"s", "t", "a", "r", "t">>, <<"v", "a", "r", "i", "a", "b", "l", "e">>} \cup DOMAIN ctx.block_outputs |->
        IF k \in DOMAIN ctx.block_outputs THEN ctx.block_outputs[k]
        ELSE IF k = <<"s", "t", "a", "r", "t">> THEN ctx.inputs
        ELSE ctx.workflow_variables]

\* _safe_eval_with_context
_safe_eval_with_context(expr, context) == EvalExpression(expr, HandlerEvaluator(context))

\* _evaluate
_evaluate(condition, ctx) ==
    IF condition.t = "bool" THEN condition.b
    ELSE IF condition.t = "none" \/ condition = PyStr(<<>>) \/ PyEq(condition, PyInt(0)) THEN FALSE
    ELSE IF condition.t # "str" THEN Truthy(condition)
    ELSE ByValue(OrFalse, _safe_eval_with_context(condition.s, eval_context(ctx)))

\* The outputs of execute
BranchOutput(outcome, yes, no, condition) ==
    PyDict(<<Entry(<<"r", "e", "s", "u", "l", "t">>, PyBool(outcome)),
             Entry(<<"b", "r", "a", "n", "c", "h">>, PyStr(IF outcome THEN yes ELSE no)),
             Entry(<<"c", "o", "n", "d", "i", "t", "i", "o", "n">>, condition)>>)

MatchedOutput(route, i, route_condition) ==
    PyDict(<<Entry(<<"r", "e", "s", "u", "l", "t">>, PyBool(TRUE)),
             Entry(<<"b", "r", "a", "n", "c", "h">>, DictGetOr(route, <<"n", "a", "m", "e">>, PyStr(<<"r", "o", "u", "t", "e", "_">> \o IntToStr(i)))),
             Entry(<<"m", "a", "t", "c", "h", "e", "d", "R", "o", "u", "t", "e">>, PyInt(i)),
             Entry(<<"c", "o", "n", "d", "i", "t", "i", "o", "n">>, route_condition)>>)

UnmatchedOutput ==
    PyDict(<<Entry(<<"r", "e", "s", "u", "l", "t">>, PyBool(FALSE)),
             Entry(<<"b", "r", "a", "n", "c", "h">>, PyStr(<<"d", "e", "f", "a", "u", "l", "t">>)),
             Entry(<<"m", "a", "t", "c", "h", "e", "d", "R", "o", "u", "t", "e">>, PyNone)>>)

PassThroughOutput ==
    PyDict(<<Entry(<<"r", "e", "s", "u", "l", "t">>, PyBool(TRUE)),
             Entry(<<"b", "r", "a", "n", "c", "h">>, PyStr(<<"d", "e", "f", "a", "u", "l", "t">>))>>)

\* execute, lines 50-53: whether the route at index i matches
RouteMatches(routes, i, ctx) ==
    LET route_condition == DictGetOr(routes.kids[i + 1].v, <<"c", "o", "n", "d", "i", "t", "i", "o", "n">>, PyStr(<<>>))
    IN  Truthy(route_condition) /\ _evaluate(resolve(route_condition, ctx), ctx)

RoutesFromOff(routes, i, ctx) ==
    LET matching == {j \in i..(Len(routes.kids) - 1) : RouteMatches(routes, j, ctx)}
        last == CHOOSE j \in matching : \A k \in matching : k <= j
    IN  IF matching = {} THEN UnmatchedOutput
        ELSE MatchedOutput(routes.kids[last + 1].v, last,
                           DictGetOr(routes.kids[last + 1].v, <<"c", "o", "n", "d", "i", "t", "i", "o", "n">>, PyStr(<<>>)))

\* execute, lines 49-66: the loop over enumerate(routes) from index i
RECURSIVE RoutesFrom(_, _, _)
RoutesFrom(routes, i, ctx) ==
    IF i >= Len(routes.kids) THEN UnmatchedOutput
    ELSE IF RouteMatches(routes, i, ctx)
         THEN MatchedOutput(routes.kids[i + 1].v, i,
                            DictGetOr(routes.kids[i + 1].v, <<"c", "o", "n", "d", "i", "t", "i", "o", "n">>, PyStr(<<>>)))
         ELSE RoutesFrom(routes, i + 1, ctx)

\* execute
execute(ctx, inputs) ==
    LET condition == DictGetOr(inputs, <<"c", "o", "n", "d", "i", "t", "i", "o", "n">>, PyStr(<<>>))
        routes == DictGetOr(inputs, <<"r", "o", "u", "t", "e", "s">>, PyList(<<>>))
        if_condition == DictGetOr(inputs, <<"i", "f">>, PyStr(<<>>))
    IN  IF Truthy(condition)
        THEN BranchOutput(_evaluate(resolve(condition, ctx), ctx),
                          <<"t", "r", "u", "e">>, <<"f", "a", "l", "s", "e">>, condition)
        ELSE IF Truthy(if_condition)
        THEN BranchOutput(_evaluate(resolve(if_condition, ctx), ctx),
                          <<"t", "h", "e", "n">>, <<"e", "l", "s", "e">>, if_condition)
        ELSE IF Truthy(routes) THEN RoutesFrom(routes, 0, ctx)
        ELSE PassThroughOutput

(***************************************************************************)
(* handlers/variables.py and handlers/response.py                          *)
(***************************************************************************)
\* d[key] = value
DictSet(d, key, value) ==
    IF \E i \in DOMAIN d.kids : d.kids[i].k = key
    THEN [d EXCEPT !.kids = [i \in DOMAIN d.kids |->
                                IF d.kids[i].k = key THEN Entry(key, value) ELSE d.kids[i]]]
    ELSE [d EXCEPT !.kids = Append(@, Entry(key, value))]

\* list(d.keys())
DictKeys(d) == PyList([i \in DOMAIN d.kids |-> PyStr(d.kids[i].k)])

\* VariablesBlockHandler.execute, lines 16-23: the loop over variables from
\* entry i, with the context and the `updated` mapping so far
RECURSIVE Assign(_, _, _, _)
Assign(variables, i, ctx, updated) ==
    IF i > Len(variables.kids) THEN [ctx |-> ctx, updated |-> updated]
    ELSE LET name == DictGet(variables.kids[i].v, <<"v", "a", "r", "i", "a", "b", "l", "e", "N", "a", "m", "e">>)
             Assigned(resolved_value) ==
                 Assign(variables, i + 1,
                        [ctx EXCEPT !.workflow_variables = DictSet(@, name.s, resolved_value)],
                        DictSet(updated, name.s, resolved_value))
         IN  IF Truthy(name)
             THEN ByValue(Assigned, resolve(DictGet(variables.kids[i].v, <<"v", "a", "l", "u", "e">>), ctx))
             ELSE Assign(variables, i + 1, ctx, updated)

\* VariablesBlockHandler.execute: the context it leaves and the output
VariablesExecute(ctx, inputs) ==
    LET Returned(assigned) ==
            [ctx |-> assigned.ctx,
             output |-> PyDict(<<Entry(<<"u", "p", "d", "a", "t", "e", "d">>, assigned.updated),
                                 Entry(<<"v", "a", "r", "i", "a", "b", "l", "e", "s">>, DictKeys(assigned.ctx.workflow_variables))>>)]
    IN  ByValue(Returned, Assign(DictGetOr(inputs, <<"v", "a", "r", "i", "a", "b", "l", "e", "s">>, PyList(<<>>)), 1, ctx, PyDict(<<>>)))

\* ResponseBlockHandler.execute, lines 25-33: the fields of builderData from
\* entry i
RECURSIVE Structured(_, _, _, _)
Structured(builder_data, i, ctx, structured) ==
    IF i > Len(builder_data.kids) THEN structured
    ELSE LET name == DictGet(builder_data.kids[i].v, <<"n", "a", "m", "e">>)
             value == DictGet(builder_data.kids[i].v, <<"v", "a", "l", "u", "e">>)
         IN  IF Truthy(name)
             THEN Structured(builder_data, i + 1, ctx,
                             DictSet(structured, name.s,
                                     IF Truthy(value) THEN resolve(value, ctx) ELSE PyNone))
             ELSE Structured(builder_data, i + 1, ctx, structured)

\* ResponseBlockHandler.execute, lines 41-47: the headers from entry i
RECURSIVE HeadersDict(_, _, _, _)
HeadersDict(headers, i, ctx, headers_dict) ==
    IF i > Len(headers.kids) THEN headers_dict
    ELSE LET cells == DictGetOr(headers.kids[i].v, <<"c", "e", "l", "l", "s">>, PyDict(<<>>))
             key == strip(DictGetOr(cells, <<"K", "e", "y">>, PyStr(<<>>)).s)
             value == strip(DictGetOr(cells, <<"V", "a", "l", "u", "e">>, PyStr(<<>>)).s)
         IN  IF key # <<>>
             THEN HeadersDict(headers, i + 1, ctx,
                              DictSet(headers_dict, key, resolve(PyStr(value), ctx)))
             ELSE HeadersDict(headers, i + 1, ctx, headers_dict)

\* ResponseBlockHandler.execute, lines 23-38: response_data
ResponseData(data_mode, builder_data, resolved_data, inputs, ctx) ==
    IF data_mode = PyStr(<<"s", "t", "r", "u", "c", "t", "u", "r", "e", "d">>) /\ Truthy(builder_data)
    THEN Structured(builder_data, 1, ctx, PyDict(<<>>))
    ELSE IF data_mode = PyStr(<<"r", "a", "w">>) /\ Truthy(resolved_data) THEN resolved_data
    ELSE IF Truthy(resolved_data) THEN resolved_data
    ELSE inputs

\* ResponseBlockHandler.execute
ResponseExecute(ctx, inputs) ==
    LET data_mode == DictGetOr(inputs, <<"d", "a", "t", "a", "M", "o", "d", "e">>, PyStr(<<"r", "a", "w">>))
        data == DictGet(inputs, <<"d", "a", "t", "a">>)
        Built(resolved_data) ==
            LET Headed(headers_dict) ==
                    PyDict(<<Entry(<<"d", "a", "t", "a">>,
                                   ResponseData(data_mode,
                                                DictGetOr(inputs, <<"b", "u", "i", "l", "d", "e", "r", "D", "a", "t", "a">>, PyList(<<>>)),
                                                resolved_data, inputs, ctx)),
                             Entry(<<"s", "t", "a", "t", "u", "s">>, DictGet(inputs, <<"s", "t", "a", "t", "u", "s">>)),
                             Entry(<<"h", "e", "a", "d", "e", "r", "s">>, IF Truthy(headers_dict) THEN headers_dict ELSE PyNone),
                             Entry(<<"d", "a", "t", "a", "M", "o", "d", "e">>, data_mode)>>)
            IN  ByValue(Headed, HeadersDict(DictGetOr(inputs, <<"h", "e", "a", "d", "e", "r", "s">>, PyList(<<>>)), 1, ctx, PyDict(<<>>)))
    IN  ByValue(Built, IF Truthy(data) THEN resolve(data, ctx) ELSE PyNone)

(***************************************************************************)
(* executor.py: constants, the handler registry, the graph                 *)
(***************************************************************************)
\* MAX_LOOP_ITERATIONS = 1000 in the source; the model runs the same code with
\* the limit scaled down so that loops reach it.
MAX_LOOP_ITERATIONS == 3

\* max_retries = 3
max_retries == 3

NoId == 0

MissingId == 9

LoopContainerTypes == {"loop", "loop_block"}

\* can_handle of the handlers registered by _load_handlers, in registry order
HandlerTypes == <<
    [handler |-> "start",     types |-> {"start", "start_trigger", "starter"}],
    [handler |-> "agent",     types |-> {"agent"}],
    [handler |-> "function",  types |-> {"function"}],
    [handler |-> "condition", types |-> {"condition", "router", "if", "switch"}],
    [handler |-> "api",       types |-> {"api", "http", "request", "webhook"}],
    [handler |-> "variables", types |-> {"variables"}],
    [handler |-> "response",  types |-> {"response", "output"}] >>

_get_handlerOff(type) ==
    IF \E i \in DOMAIN HandlerTypes : type \in HandlerTypes[i].types
    THEN HandlerTypes[CHOOSE i \in DOMAIN HandlerTypes : type \in HandlerTypes[i].types].handler
    ELSE "start"

\* _get_handler: the first handler whose can_handle accepts the type, or None
_get_handler(type) ==
    IF \E i \in DOMAIN HandlerTypes : type \in HandlerTypes[i].types
    THEN HandlerTypes[CHOOSE i \in DOMAIN HandlerTypes :
                         /\ type \in HandlerTypes[i].types
                         /\ \A j \in 1..(i - 1) : type \notin HandlerTypes[j].types].handler
    ELSE None

Ids == DOMAIN wf.blocks

BlockOf(b) == wf.blocks[b]

\* _build_graph, lines 138-143: the children of loop container l
loop_children(l) ==
    {b \in Ids : /\ BlockOf(b).parent_id # NoId
                 /\ BlockOf(b).parent_id \in Ids
                 /\ BlockOf(BlockOf(b).parent_id).type \in LoopContainerTypes
                 /\ BlockOf(b).parent_id = l}

_get_top_level_blocksOff == Ids

\* _get_top_level_blocks
_get_top_level_blocks == Ids \ UNION {loop_children(l) : l \in Ids}

InDegreeOff(block_ids) ==
    [b \in block_ids |-> Cardinality({i \in DOMAIN wf.edges : wf.edges[i].target = b})]

InDegreeNoSelf(block_ids) ==
    [b \in block_ids |->
        Cardinality({i \in DOMAIN wf.edges : /\ wf.edges[i].source \in block_ids \ {b}
                                              /\ wf.edges[i].target = b})]

\* _get_execution_order, lines 148-154
InDegree(block_ids) ==
    [b \in block_ids |->
        Cardinality({i \in DOMAIN wf.edges : /\ wf.edges[i].source \in block_ids
                                              /\ wf.edges[i].target = b})]

\* line 156: the blocks of in-degree 0; block_ids is a Python set, so the
\* order in which they enter the queue is any order
InitialQueues(block_ids) ==
    LET zero == {b \in block_ids : InDegree(block_ids)[b] = 0}
    IN  {[i \in 1..Cardinality(zero) |-> p[i]] : p \in Perms(zero)}

RECURSIVE ScanEdges(_, _, _, _, _)
\* lines 162-167: the scan of self.edges after popping `current`
ScanEdges(i, current, queue, in_deg, block_ids) ==
    IF i > Len(wf.edges) THEN [queue |-> queue, in_deg |-> in_deg]
    ELSE IF wf.edges[i].source = current /\ wf.edges[i].target \in block_ids
    THEN LET target == wf.edges[i].target
             deg == [in_deg EXCEPT ![target] = @ - 1]
         IN  ScanEdges(i + 1, current,
                       IF deg[target] = 0 THEN Append(queue, target) ELSE queue,
                       deg, block_ids)
    ELSE ScanEdges(i + 1, current, queue, in_deg, block_ids)

QueuePopOff(queue) == [current |-> queue[Len(queue)], rest |-> SubSeq(queue, 1, Len(queue) - 1)]

\* line 160: queue.pop(0)
QueuePop(queue) == [current |-> Head(queue), rest |-> Tail(queue)]

RECURSIVE KahnLoop(_, _, _, _)
\* lines 159-167: the while loop
KahnLoop(queue, order, in_deg, block_ids) ==
    IF queue = <<>> THEN order
    ELSE LET p == QueuePop(queue)
             r == ScanEdges(1, p.current, p.rest, in_deg, block_ids)
         IN  KahnLoop(r.queue, Append(order, p.current), r.in_deg, block_ids)

\* _get_execution_order, given the order q0 in which line 156 iterates the set
_get_execution_order(block_ids, q0) == KahnLoop(q0, <<>>, InDegree(block_ids), block_ids)

(***************************************************************************)
(* executor.py: _execute_block                                             *)
(***************************************************************************)
\* line 207: transient = ['timeout', 'connection', 'rate limit', '429', '503']
transient == { <<"t","i","m","e","o","u","t">>,
               <<"c","o","n","n","e","c","t","i","o","n">>,
               <<"r","a","t","e"," ","l","i","m","i","t">>,
               <<"4","2","9">>,
               <<"5","0","3">> }

is_transientOff(message) == \E t \in transient : Contains(message, t)

\* lines 206-208: any(t in str(e).lower() for t in transient)
is_transient(message) == \E t \in transient : Contains(Lower(message), t)

RECURSIVE Pow2(_)
Pow2(n) == IF n = 0 THEN 1 ELSE 2 * Pow2(n - 1)

backoffOff(attempt) == 1 * (attempt + 1)

\* line 211: 1.0 * (2 ** attempt), in seconds
backoff(attempt) == 1 * Pow2(attempt)

\* Exception messages the raising handlers are made to produce.
MsgTimeout == <<"R","e","a","d"," ","T","i","m","e","o","u","t">>

MsgConnection == <<"C","o","n","n","e","c","t","i","o","n"," ","r","e","s","e","t">>

MsgRateLimit == <<"R","a","t","e"," ","L","i","m","i","t"," ","h","i","t">>

Msg429 == <<"H","T","T","P"," ","4","2","9">>

Msg503 == <<"H","T","T","P"," ","5","0","3">>

MsgBoom == <<"b","o","o","m">>

MsgTimeOut == <<"t","i","m","e"," ","o","u","t"," ","5","0","2">>

AllMessages == {MsgTimeout, MsgConnection, MsgRateLimit, Msg429, Msg503, MsgBoom, MsgTimeOut}

NoOutput == [none |-> TRUE]

EmptyDict == [k \in {} |-> NoOutput]

\* d[k] = v on a dict
Put(d, k, v) == [x \in DOMAIN d \cup {k} |-> IF x = k THEN v ELSE d[x]]

\* ctx.inputs of the run (the request body)
RunInputs == [x |-> 5]

NoItem == 0

\* An output of the run that no reference of the workflow families reads into
Opaque == [t |-> "opaque", b |-> FALSE, n |-> 0, s |-> <<>>, kids |-> <<>>]

\* ctx as the resolver reads it during a run: the request body, no workflow
\* variables, and the keys of ctx.block_outputs
ExecutorContext ==
    Context(PyDict(<<Entry(<<"x">>, PyInt(RunInputs.x))>>), PyDict(<<>>),
            [k \in DOMAIN block_outputs |-> Opaque])

(***************************************************************************)
(* handlers/function.py: FunctionBlockHandler                              *)
(***************************************************************************)
\* _resolve_code_references, replace_ref: the Python literal of a value
CodeLiteral(v) ==
    CASE v.t = "none" -> <<"N", "o", "n", "e">>
      [] v.t = "bool" -> IF v.b THEN <<"T", "r", "u", "e">> ELSE <<"F", "a", "l", "s", "e">>
      [] v.t = "str"  -> <<"'">> \o replace(replace(v.s, <<"\\">>, <<"\\", "\\">>),
                                             <<"'">>, <<"\\", "'">>) \o <<"'">>
      [] v.t = "int"  -> IntToStr(v.n)
      [] OTHER        -> JsonDumps(v)

\* _resolve_code_references: pattern.sub(replace_ref, code) from position i
RECURSIVE _resolve_code_references(_, _, _)
_resolve_code_references(code, i, ctx) ==
    IF i > Len(code) THEN <<>>
    ELSE LET e == MatchEnd(code, i)
         IN  IF e > 0
             THEN ByValue(CodeLiteral, _resolve_string(SubSeq(code, i, e), ctx))
                  \o _resolve_code_references(code, e + 1, ctx)
             ELSE <<code[i]>> \o _resolve_code_references(code, i + 1, ctx)

ReturnPrefix == <<"_", "_", "r", "e", "t", "u", "r", "n", "_", "_", " ", "=", " ", "{", "\"", "v", "\"", ":", " ">>

ReturnSuffix == <<" ", "*", " ", "2", "}">>

\* The operand of a program  __return__ = {"v": OPERAND * 2}
OperandOf(code) == SubSeq(code, Len(ReturnPrefix) + 1, Len(code) - Len(ReturnSuffix))

\* lines 83-91: compile and exec.  The programs of the model are the empty
\* one and  __return__ = {"v": OPERAND * 2}  with an integer, a boolean,
\* None or a name that is not defined for operand; an exception is returned.
RunCode(code) ==
    CASE code = <<>> -> [executed |-> TRUE]
      [] /\ Len(code) > Len(ReturnPrefix) + Len(ReturnSuffix)
         /\ SubSeq(code, 1, Len(ReturnPrefix)) = ReturnPrefix
         /\ SubSeq(code, Len(code) - Len(ReturnSuffix) + 1, Len(code)) = ReturnSuffix
         /\ \/ isdigit(OperandOf(code))
            \/ IsName(OperandOf(code)) ->
            LET operand == OperandOf(code)
            IN  CASE isdigit(operand) -> [v |-> ParseDigits(operand) * 2]
                  [] operand = <<"T", "r", "u", "e">> -> [v |-> 2]
                  [] operand = <<"F", "a", "l", "s", "e">> -> [v |-> 0]
                  [] operand = <<"N", "o", "n", "e">> ->
                        [error |-> <<"unsupported operand type(s) for *: 'NoneType' and 'int'">>,
                         traceback |-> "TypeError", resolved_code |-> code]
                  [] OTHER ->
                        [error |-> <<"name '", operand, "' is not defined">>,
                         traceback |-> "NameError", resolved_code |-> code]

\* execute: `code` is the code input as _execute_block resolved it
FunctionExecute(ctx, code) ==
    LET Execute(resolved) ==
            IF resolved.t # "str"
            THEN [error |-> <<"Failed to resolve references: ", "expected string or bytes-like object">>,
                  original_code |-> resolved]
            ELSE ByValue(RunCode, _resolve_code_references(resolved.s, 1, ctx))
    IN  ByValue(Execute, code)

NoLoopCtx == [present |-> FALSE, index |-> 0, item |-> NoItem, items |-> <<>>]

NoBlk == [phase |-> "idle", id |-> NoId, caller |-> None, handler |-> None,
          attempt |-> 0, start_time |-> 0, invocations |-> 0, sleeps |-> <<>>,
          answers |-> <<>>, _loop |-> NoLoopCtx, output |-> NoOutput, success |-> FALSE]

\* handlers/api.py lines 93-121: the value execute returns for what the target
\* answered; a timeout or a connection failure is caught and returned too
ApiOutput(answer) ==
    CASE answer = "200"     -> [status |-> 200, ok |-> TRUE, data |-> "body200"]
      [] answer = "503"     -> [status |-> 503, ok |-> FALSE, data |-> "body503"]
      [] answer = "timeout" -> [error |-> <<"Request timed out after ", "30", "s">>, url |-> "u"]
      [] OTHER              -> [error |-> <<"Connection failed: ", "refused">>, url |-> "u"]

\* handlers/agent.py lines 643-644 (and 564, 709, 797): what the provider
\* loop returns for what the provider answered; an exception of the client
\* is caught and returned
AgentOutput(answer) ==
    IF answer = "200" THEN [content |-> "reply"]
    ELSE [error |-> <<"provider answered ", answer>>, provider |-> "openai"]

\* handlers/response.py lines 49-54: the response mapping; every response
\* block is configured with a `data` input of its own
ResponseOutput(b) == [data |-> <<"data of block", b>>, dataMode |-> "raw"]

\* A condition as the workflow document writes it, by kind:
\*   empty            '' or absent
\*   true             True
\*   false            False
\*   index_lt         <loop.index> < bound
\*   start_gt         <start.x> > bound
\*   unsafe           foo(1), a call _safe_eval_condition rejects
\*   unsafe_name      x > 1
\*   unsafe_operator  2 * 3
\*   unparsable       1 +
\*   number           the number bound in place of a string
Cond(kind, bound) == [kind |-> kind, bound |-> bound]

ConditionValue(condition) ==
    CASE condition.kind = "empty"    -> PyStr(<<>>)
      [] condition.kind = "true"     -> PyStr(<<"T", "r", "u", "e">>)
      [] condition.kind = "false"    -> PyStr(<<"F", "a", "l", "s", "e">>)
      [] condition.kind = "index_lt" -> PyStr(<<"<", "l", "o", "o", "p", ".", "i", "n", "d", "e", "x", ">", " ", "<", " ">> \o IntToStr(condition.bound))
      [] condition.kind = "start_gt" -> PyStr(<<"<", "s", "t", "a", "r", "t", ".", "x", ">", " ", ">", " ">> \o IntToStr(condition.bound))
      [] condition.kind = "unsafe"   -> PyStr(<<"f", "o", "o", "(", "1", ")">>)
      [] condition.kind = "unsafe_name" -> PyStr(<<"x", " ", ">", " ", "1">>)
      [] condition.kind = "unsafe_operator" -> PyStr(<<"2", " ", "*", " ", "3">>)
      [] condition.kind = "unparsable" -> PyStr(<<"1", " ", "+">>)
      [] OTHER                       -> PyInt(condition.bound)

\* The inputs of a condition block of the workflow families: its condition
ConditionInputs(inputs) ==
    PyDict(<<Entry(<<"c", "o", "n", "d", "i", "t", "i", "o", "n">>, ConditionValue(inputs.condition))>>)

\* What one call of handler.execute can do: return a value or raise.
\*   start     returns ctx.inputs (handlers/start.py line 9)
\*   api       returns ApiOutput of the target's answer to this attempt
\*   response  returns its response mapping
\*   function  returns what its code, resolved at line 184, makes
\*   condition returns the branch its condition, resolved at line 184, selects
\*   agent     returns a reply or, its provider failing, the error, or raises
\*             any of the run's fault messages
HandlerOutcomes(handler, attempt) ==
    CASE handler = "start"    -> {[raises |-> FALSE, value |-> RunInputs, message |-> <<>>]}
      [] handler = "api"      -> {[raises |-> FALSE, value |-> ApiOutput(wf.env.server[attempt + 1]),
                                   message |-> <<>>]}
      [] handler = "response" -> {[raises |-> FALSE, value |-> ResponseOutput(blk.id),
                                   message |-> <<>>]}
      [] handler = "function" ->
            {[raises |-> FALSE,
              value |-> FunctionExecute(ExecutorContext,
                                        resolve(PyStr(BlockOf(blk.id).inputs.code), ExecutorContext)),
              message |-> <<>>]}
      [] handler = "condition" ->
            {[raises |-> FALSE,
              value |-> execute(ExecutorContext,
                                resolve(ConditionInputs(BlockOf(blk.id).inputs), ExecutorContext)),
              message |-> <<>>]}
      [] OTHER                -> {[raises |-> FALSE, value |-> AgentOutput(wf.env.server[attempt + 1]),
                                   message |-> <<>>]}
                                 \cup {[raises |-> TRUE, value |-> NoOutput, message |-> m] :
                                          m \in wf.env.faults}

\* Time one call of handler.execute takes: start.py returns without awaiting.
Duration(handler) == IF handler = "start" THEN 0 ELSE 1

\* The caller's next block: run's for loop (line 467) or the loop driver's
\* for loop over child_order (line 275).
CallPending ==
    IF pc = "run" THEN idx <= Len(execution_order)
    ELSE pc = "loop_body" /\ loop.cidx <= Len(loop.child_order)

CalleeOff ==
    IF pc = "run" THEN execution_order[idx]
    ELSE loop.child_order[Len(loop.child_order) + 1 - loop.cidx]

Callee == IF pc = "run" THEN execution_order[idx] ELSE loop.child_order[loop.cidx]

\* run line 473 sends loop containers to _execute_loop; line 278 sends every
\* child, whatever its type, to _execute_block.
LeafCall == CallPending /\ (pc = "run" => BlockOf(Callee).type \notin LoopContainerTypes)

ReturnGated(caller, b, output) ==
    IF caller = "run"
    THEN /\ final_output' = IF BlockOf(b).type \in {"response", "output"}
                            THEN output ELSE final_output
         /\ idx' = IF /\ _get_handler(BlockOf(b).type) = "condition"
                      /\ output.t = "dict"
                      /\ DictGet(output, <<"r", "e", "s", "u", "l", "t">>) = PyBool(FALSE)
                   THEN Len(execution_order) + 1 ELSE idx + 1
         /\ pc' = "run"
         /\ UNCHANGED loop
    ELSE /\ loop' = [loop EXCEPT !.iteration_results = Put(@, BlockOf(b).name, output),
                                 !.cidx = @ + 1]
         /\ pc' = "loop_body"
         /\ UNCHANGED <<final_output, idx>>

ReturnOff(caller, b, output) ==
    IF caller = "run"
    THEN /\ final_output' = IF BlockOf(b).type \in {"response", "output"}
                                /\ final_output = NoOutput
                            THEN output ELSE final_output
         /\ idx' = idx + 1
         /\ pc' = "run"
         /\ UNCHANGED loop
    ELSE /\ loop' = [loop EXCEPT !.iteration_results = Put(@, BlockOf(b).name, output),
                                 !.cidx = @ + 1]
         /\ pc' = "loop_body"
         /\ UNCHANGED <<final_output, idx>>

\* The call of _execute_block(b) returns `output` to its caller:
\* run lines 478-479, or _execute_loop line 279.
Return(caller, b, output) ==
    IF caller = "run"
    THEN /\ final_output' = IF BlockOf(b).type \in {"response", "output"}
                            THEN output ELSE final_output
         /\ idx' = idx + 1
         /\ pc' = "run"
         /\ UNCHANGED loop
    ELSE /\ loop' = [loop EXCEPT !.iteration_results = Put(@, BlockOf(b).name, output),
                                 !.cidx = @ + 1]
         /\ pc' = "loop_body"
         /\ UNCHANGED <<final_output, idx>>

NoHandlerOutput(type) == [error |-> <<"No handler for block type: ", type>>]

\* lines 180-182: no handler accepts the type
ExecNoHandler ==
    /\ LeafCall
    /\ _get_handler(BlockOf(Callee).type) = None
    /\ LET b == Callee
           caller == IF pc = "run" THEN "run" ELSE "loop"
           output == NoHandlerOutput(BlockOf(b).type)
       IN  /\ blk' = [NoBlk EXCEPT !.phase = "returned", !.id = b, !.caller = caller,
                                   !.output = output]
           /\ hist' = [hist EXCEPT !.finished = Append(@, [id |-> b, how |-> "no_handler"])]
           /\ Return(caller, b, output)
    /\ UNCHANGED <<rlvars, fnvars, sysvars, wf, execution_order, block_outputs, logs, loop_states,
                   current_loop_id, clock, result>>

LoopContextOff(b) == NoLoopCtx

\* lines 186-193: resolved_inputs['_loop']
LoopContext(b) ==
    IF current_loop_id # NoId /\ current_loop_id \in DOMAIN loop_states
    THEN [present |-> TRUE,
          index |-> loop_states[current_loop_id].iteration,
          item |-> loop_states[current_loop_id].current_item,
          items |-> loop_states[current_loop_id].items]
    ELSE NoLoopCtx

\* lines 180-198: a handler exists; inputs resolved, start_time taken
ExecBegin ==
    /\ LeafCall
    /\ _get_handler(BlockOf(Callee).type) # None
    /\ blk' = [NoBlk EXCEPT !.phase = "running", !.id = Callee,
                            !.caller = IF pc = "run" THEN "run" ELSE "loop",
                            !.handler = _get_handler(BlockOf(Callee).type),
                            !._loop = LoopContext(Callee),
                            !.start_time = clock]
    /\ pc' = "attempt"
    /\ UNCHANGED <<rlvars, fnvars, sysvars, wf, execution_order, idx, block_outputs, logs, loop_states,
                   current_loop_id, loop, clock, final_output, result, hist>>

LogRecordOff(b, start_time, end_time, success, output) ==
    [blockId |-> b, blockName |-> BlockOf(b).name, blockType |-> BlockOf(b).type,
     startedAt |-> end_time, success |-> success, output |-> output,
     endedAt |-> start_time]

\* lines 225-233
LogRecord(b, start_time, end_time, success, output) ==
    [blockId |-> b, blockName |-> BlockOf(b).name, blockType |-> BlockOf(b).type,
     startedAt |-> start_time, success |-> success, output |-> output,
     endedAt |-> end_time]

StoreOutputOff(outputs, name, output) == Put(outputs, normalized(name), output)

\* lines 221-223 (and 299-301): the output under the normalized and the raw name
StoreOutput(outputs, name, output) == Put(Put(outputs, normalized(name), output), name, output)

FinishByOutput(output, success, end_time) ==
    /\ block_outputs' = StoreOutput(block_outputs, BlockOf(blk.id).name, output)
    /\ logs' = Append(logs, LogRecord(blk.id, blk.start_time, end_time,
                                      success /\ "error" \notin DOMAIN output, output))
    /\ hist' = [hist EXCEPT !.finished = Append(@, [id |-> blk.id, how |-> "leaf"])]
    /\ Return(blk.caller, blk.id, output)

\* lines 218-235: end_time, store, log, return
Finish(output, success, end_time) ==
    /\ block_outputs' = StoreOutput(block_outputs, BlockOf(blk.id).name, output)
    /\ logs' = Append(logs, LogRecord(blk.id, blk.start_time, end_time, success, output))
    /\ hist' = [hist EXCEPT !.finished = Append(@, [id |-> blk.id, how |-> "leaf"])]
    /\ Return(blk.caller, blk.id, output)

FinishFailedOff(output, end_time) ==
    /\ pc' = "aborted"
    /\ UNCHANGED <<block_outputs, logs, hist, final_output, idx, loop>>

\* lines 213-235 on a failure: the exception is caught, the error output is
\* stored and logged, and the caller goes on
FinishFailed(output, end_time) == Finish(output, FALSE, end_time)

\* lines 202-204: the handler returns
AttemptReturns ==
    /\ pc = "attempt"
    /\ \E o \in HandlerOutcomes(blk.handler, blk.attempt) :
        /\ ~o.raises
        /\ clock' = clock + Duration(blk.handler)
        /\ blk' = [blk EXCEPT !.phase = "returned", !.invocations = @ + 1,
                              !.output = o.value, !.success = TRUE]
        /\ Finish(o.value, TRUE, clock + Duration(blk.handler))
    /\ UNCHANGED <<rlvars, fnvars, sysvars, wf, execution_order, loop_states, current_loop_id, result>>

ShouldRetryOff(message, attempt) == is_transient(message) /\ attempt < max_retries

\* line 210
ShouldRetry(message, attempt) == is_transient(message) /\ attempt < max_retries - 1

\* lines 205-212: a transient exception before the last attempt: sleep, retry
AttemptRetries ==
    /\ pc = "attempt"
    /\ \E o \in HandlerOutcomes(blk.handler, blk.attempt) :
        /\ o.raises
        /\ ShouldRetry(o.message, blk.attempt)
        /\ clock' = clock + Duration(blk.handler) + backoff(blk.attempt)
        /\ blk' = [blk EXCEPT !.invocations = @ + 1,
                              !.sleeps = Append(@, backoff(blk.attempt)),
                              !.answers = Append(@, o.message),
                              !.attempt = @ + 1]
    /\ UNCHANGED <<rlvars, fnvars, sysvars, wf, pc, execution_order, idx, block_outputs, logs, loop_states,
                   current_loop_id, loop, final_output, result, hist>>

FailureOutputOff(message, attempt) == [error |-> message, retries |-> attempt + 1]

\* line 214
FailureOutput(message, attempt) == [error |-> message, retries |-> attempt]

\* lines 213-216: any other exception ends the block
AttemptFails ==
    /\ pc = "attempt"
    /\ \E o \in HandlerOutcomes(blk.handler, blk.attempt) :
        /\ o.raises
        /\ ~ShouldRetry(o.message, blk.attempt)
        /\ clock' = clock + Duration(blk.handler)
        /\ blk' = [blk EXCEPT !.phase = "returned", !.invocations = @ + 1,
                              !.answers = Append(@, o.message),
                              !.output = FailureOutput(o.message, blk.attempt),
                              !.success = FALSE]
        /\ FinishFailed(FailureOutput(o.message, blk.attempt), clock + Duration(blk.handler))
    /\ UNCHANGED <<rlvars, fnvars, sysvars, wf, execution_order, loop_states, current_loop_id, result>>

(***************************************************************************)
(* executor.py: _execute_loop, _should_continue_loop, _evaluate_condition  *)
(***************************************************************************)
\* _execute_loop line 234: the inputs of the container, resolved
ResolvedLoopInputs(inputs) ==
    [inputs EXCEPT !.condition = resolve(ConditionValue(@), ExecutorContext)]

\* _safe_eval_condition: anything ast.parse or safe_eval_node raises is
\* caught at line 447
_safe_eval_condition(expr) ==
    IF expr.t # "str" THEN FALSE
    ELSE ByValue(OrFalse, EvalExpression(expr.s, ExecutorEvaluator))

\* _evaluate_condition: a condition that is no string has no replace, which
\* raises into the except of line 357
_evaluate_condition(condition, state) ==
    IF ~Truthy(condition) THEN state.iteration < state.max_iterations
    ELSE IF condition.t # "str" THEN state.iteration < state.max_iterations
    ELSE LET Index(cond) == replace(cond, <<"<", "l", "o", "o", "p", ".", "i", "n", "d", "e", "x", ">">>, IntToStr(state.iteration))
             Iteration(cond) == replace(cond, <<"<", "l", "o", "o", "p", ".", "i", "t", "e", "r", "a", "t", "i", "o", "n", ">">>, IntToStr(state.iteration))
             Item(cond) == IF state.current_item # NoItem
                           THEN replace(cond, <<"<", "l", "o", "o", "p", ".", "i", "t", "e", "m", ">">>, IntToStr(state.current_item))
                           ELSE cond
             Resolved(cond) == _resolve_string(cond, ExecutorContext)
         IN  ByValue(_safe_eval_condition,
                     ByValue(Resolved, ByValue(Item, ByValue(Iteration, Index(condition.s)))))

_should_continue_loopOff(state) ==
    CASE state.loop_type = "for"     -> state.iteration < state.max_iterations
      [] state.loop_type = "forEach" -> state.iteration < Len(state.items)
      [] state.loop_type = "while"   -> _evaluate_condition(state.condition, state)
      [] state.loop_type = "doWhile" ->
            IF state.iteration = 0 THEN TRUE
            ELSE _evaluate_condition(state.condition, state)
      [] OTHER -> FALSE

\* _should_continue_loop
_should_continue_loop(state) ==
    IF state.iteration >= state.max_iterations THEN FALSE
    ELSE CASE state.loop_type = "for"     -> state.iteration < state.max_iterations
           [] state.loop_type = "forEach" -> state.iteration < Len(state.items)
           [] state.loop_type = "while"   -> _evaluate_condition(state.condition, state)
           [] state.loop_type = "doWhile" ->
                 IF state.iteration = 0 THEN TRUE
                 ELSE _evaluate_condition(state.condition, state)
           [] OTHER -> FALSE

NoLoop == [id |-> NoId, prev_loop_id |-> NoId, child_order |-> <<>>, cidx |-> 0,
           iteration_results |-> EmptyDict, all_results |-> <<>>]

\* line 242: inputs.get('iterations', 10); the default is scaled with
\* MAX_LOOP_ITERATIONS and stays below it
DEFAULT_ITERATIONS == 2

Iterations(inputs) ==
    IF "iterations" \in DOMAIN inputs THEN inputs.iterations ELSE DEFAULT_ITERATIONS

InitialLoopStateOff(inputs) ==
    [iteration |-> 0,
     items |-> IF inputs.loopType = "forEach" THEN inputs.forEachItems ELSE <<>>,
     current_item |-> NoItem,
     max_iterations |-> Min(Iterations(inputs), MAX_LOOP_ITERATIONS),
     loop_type |-> inputs.loopType,
     condition |-> inputs.condition,
     iteration_outputs |-> <<>>]

\* lines 239-254: the LoopState a loop container's inputs give
InitialLoopState(inputs) ==
    [iteration |-> 0,
     items |-> IF inputs.loopType = "forEach" THEN inputs.forEachItems ELSE <<>>,
     current_item |-> NoItem,
     max_iterations |-> IF inputs.loopType = "forEach" THEN Len(inputs.forEachItems)
                        ELSE Min(Iterations(inputs), MAX_LOOP_ITERATIONS),
     loop_type |-> inputs.loopType,
     condition |-> inputs.condition,
     iteration_outputs |-> <<>>]

\* lines 234-264: run reaches a loop container; inputs resolved, state initialised,
\* children ordered
LoopEnter ==
    /\ pc = "run"
    /\ idx <= Len(execution_order)
    /\ BlockOf(execution_order[idx]).type \in LoopContainerTypes
    /\ LET l == execution_order[idx] IN
        \E q0 \in InitialQueues(loop_children(l)) :
            /\ loop_states' = Put(loop_states, l,
                                  InitialLoopState(ResolvedLoopInputs(BlockOf(l).inputs)))
            /\ loop' = [NoLoop EXCEPT !.id = l, !.prev_loop_id = current_loop_id,
                                      !.child_order = _get_execution_order(loop_children(l), q0)]
            /\ current_loop_id' = l
    /\ pc' = "loop_check"
    /\ UNCHANGED <<rlvars, fnvars, sysvars, wf, execution_order, idx, block_outputs, logs, blk, clock,
                   final_output, result, hist>>

\* lines 267-272: the iteration starts
LoopIterate ==
    /\ pc = "loop_check"
    /\ _should_continue_loop(loop_states[loop.id])
    /\ loop_states' = [loop_states EXCEPT ![loop.id].current_item =
                          IF /\ loop_states[loop.id].loop_type = "forEach"
                             /\ loop_states[loop.id].iteration < Len(loop_states[loop.id].items)
                          THEN loop_states[loop.id].items[loop_states[loop.id].iteration + 1]
                          ELSE @]
    /\ loop' = [loop EXCEPT !.iteration_results = EmptyDict, !.cidx = 1]
    /\ pc' = "loop_body"
    /\ UNCHANGED <<rlvars, fnvars, sysvars, wf, execution_order, idx, block_outputs, logs, current_loop_id,
                   blk, clock, final_output, result, hist>>

LoopOutput(results, state) ==
    [results |-> results, totalIterations |-> state.iteration, status |-> "completed"]

LoopLeaveInScope(results, state) ==
    /\ current_loop_id' = current_loop_id
    /\ block_outputs' = StoreOutput(block_outputs, BlockOf(loop.id).name,
                                    LoopOutput(results, state))
    /\ hist' = [hist EXCEPT !.finished = Append(@, [id |-> loop.id, how |-> "loop"])]
    /\ idx' = idx + 1
    /\ pc' = "run"

\* lines 289-303: the loop is left; its output is stored and returned to run
LoopLeave(results, state) ==
    /\ current_loop_id' = loop.prev_loop_id
    /\ block_outputs' = StoreOutput(block_outputs, BlockOf(loop.id).name,
                                    LoopOutput(results, state))
    /\ hist' = [hist EXCEPT !.finished = Append(@, [id |-> loop.id, how |-> "loop"])]
    /\ idx' = idx + 1
    /\ pc' = "run"

\* line 267: the loop condition fails
LoopExit ==
    /\ pc = "loop_check"
    /\ ~_should_continue_loop(loop_states[loop.id])
    /\ LoopLeave(loop.all_results, loop_states[loop.id])
    /\ UNCHANGED <<rlvars, fnvars, sysvars, wf, execution_order, logs, loop_states, loop, blk, clock,
                   final_output, result>>

HardStopOff(iteration) == iteration > MAX_LOOP_ITERATIONS

\* line 286
HardStop(iteration) == iteration >= MAX_LOOP_ITERATIONS

\* lines 281-287: the children are done; record the iteration, advance, hard stop
LoopIterationEnd ==
    /\ pc = "loop_body"
    /\ loop.cidx > Len(loop.child_order)
    /\ LET results == Append(loop.all_results, loop.iteration_results)
           state == [loop_states[loop.id] EXCEPT
                        !.iteration_outputs = Append(@, loop.iteration_results),
                        !.iteration = @ + 1]
       IN  /\ loop_states' = [loop_states EXCEPT ![loop.id] = state]
           /\ loop' = [loop EXCEPT !.all_results = results]
           /\ IF HardStop(state.iteration)
              THEN LoopLeave(results, state)
              ELSE /\ pc' = "loop_check"
                   /\ UNCHANGED <<current_loop_id, block_outputs, hist, idx>>
    /\ UNCHANGED <<rlvars, fnvars, sysvars, wf, execution_order, logs, blk, clock, final_output, result>>

(***************************************************************************)
(* executor.py: run                                                        *)
(***************************************************************************)
NoResult == [success |-> FALSE, output |-> NoOutput, error |-> None, logs |-> <<>>]

\* lines 456-465: the context is fresh, the top-level order is computed
StartRun ==
    /\ pc = "init"
    /\ \E q0 \in InitialQueues(_get_top_level_blocks) :
          execution_order' = _get_execution_order(_get_top_level_blocks, q0)
    /\ idx' = 1
    /\ pc' = "run"
    /\ UNCHANGED <<rlvars, fnvars, sysvars, wf, block_outputs, logs, loop_states, current_loop_id, loop,
                   blk, clock, final_output, result, hist>>

\* lines 481-486
RunDone ==
    /\ pc = "run"
    /\ idx > Len(execution_order)
    /\ result' = [success |-> TRUE, output |-> final_output, error |-> None, logs |-> logs]
    /\ pc' = "done"
    /\ UNCHANGED <<rlvars, fnvars, sysvars, wf, execution_order, idx, block_outputs, logs, loop_states,
                   current_loop_id, loop, blk, clock, final_output, hist>>

(***************************************************************************)
(* The workflow documents and environments the runs are checked on         *)
(***************************************************************************)
MaxEdges == 2

MaxLoopEdges == 1

NoInputs == [loopType |-> "for", iterations |-> 0, forEachItems |-> <<>>,
             condition |-> Cond("empty", 0)]

Block(name, type, parent_id, inputs) ==
    [name |-> name, type |-> type, parent_id |-> parent_id, inputs |-> inputs]

Edge(source, target) == [source |-> source, target |-> target]

EdgeSeqs(ids, n) == UNION {[1..k -> [source : ids, target : ids]] : k \in 0..n}

\* Block names: "A b" and "a_b" share the normalized key; "K" twice is a
\* duplicate name.
NamesMixed == << <<"A"," ","b">>, <<"a","_","b">>, <<"C">> >>

NamesDuplicate == << <<"A">>, <<"K">>, <<"K">> >>

Healthy == <<"200", "200", "200">>

ServerScripts == {Healthy, <<"503", "503", "200">>, <<"timeout", "200", "200">>,
                  <<"connect", "503", "200">>}

Rank(seq, x) == CHOOSE i \in DOMAIN seq : seq[i] = x

\* Three top-level blocks of every combination of kinds, every edge list of
\* up to MaxEdges edges.
FlatTypes == <<"agent", "mystery", "response">>

FlatWorkflows ==
    {[blocks |-> [b \in 1..3 |-> Block(NamesMixed[b], t[b], NoId, NoInputs)],
      edges |-> e,
      env |-> [faults |-> {MsgBoom}, server |-> Healthy]] :
        t \in {v \in [1..3 -> Range(FlatTypes)] :
                  /\ Rank(FlatTypes, v[1]) <= Rank(FlatTypes, v[2])
                  /\ Rank(FlatTypes, v[2]) <= Rank(FlatTypes, v[3])},
        e \in EdgeSeqs(1..3, MaxEdges)}

\* The inputs of a loop container.
LoopInput(loopType, iterations, nitems, condition) ==
    [loopType |-> loopType, iterations |-> iterations,
     forEachItems |-> [i \in 1..nitems |-> 10 * i], condition |-> condition]

Counts == {0, 2, MAX_LOOP_ITERATIONS, MAX_LOOP_ITERATIONS + 1}

Conditions == {Cond("empty", 0), Cond("false", 0), Cond("index_lt", 1), Cond("unsafe", 0)}

LoopInputs ==
    {LoopInput("for", n, 0, Cond("empty", 0)) : n \in Counts}
    \cup {LoopInput("forEach", 1, n, Cond("empty", 0)) : n \in Counts}
    \cup {LoopInput(t, 2, 0, c) : t \in {"while", "doWhile"}, c \in Conditions}
    \cup {LoopInput(t, MAX_LOOP_ITERATIONS + 1, 0, Cond("true", 0)) : t \in {"while", "doWhile"}}
    \cup {LoopInput("doWhile", 0, 0, c) : c \in {Cond("empty", 0), Cond("true", 0)}}

Kind(type, parent_id) == [type |-> type, parent_id |-> parent_id]

\* Block 1 is a loop container; blocks 2 and 3 are its children, a nested
\* container and its child, or top-level blocks whose parentId is absent,
\* names a missing block or names a block that is no container.
LoopKinds ==
    {<<Kind("agent", 1), Kind("start", 1)>>,
     <<Kind("agent", 1), Kind("agent", 1)>>,
     <<Kind("mystery", 1), Kind("agent", 1)>>,
     <<Kind("agent", 1), Kind("agent", 2)>>,
     <<Kind("loop", 1), Kind("agent", 2)>>,
     <<Kind("loop", 1), Kind("agent", 1)>>,
     <<Kind("agent", NoId), Kind("agent", 1)>>,
     <<Kind("agent", NoId), Kind("response", MissingId)>>,
     <<Kind("agent", 1), Kind("response", MissingId)>>}

\* Every loop input under names with a shared normalized key; a two-iteration
\* loop under duplicate names.
NamedLoopInputs ==
    {<<NamesMixed, li>> : li \in LoopInputs}
    \cup {<<NamesDuplicate, LoopInput("for", 2, 0, Cond("empty", 0))>>}

LoopWorkflows ==
    {[blocks |-> [b \in 1..3 |->
                    CASE b = 1 -> Block(nl[1][1], "loop", NoId, nl[2])
                      [] b = 2 -> Block(nl[1][2], k[1].type, k[1].parent_id,
                                        LoopInput("for", 1, 0, Cond("empty", 0)))
                      [] OTHER -> Block(nl[1][3], k[2].type, k[2].parent_id, NoInputs)],
      edges |-> e,
      env |-> [faults |-> {MsgBoom}, server |-> Healthy]] :
        nl \in NamedLoopInputs, k \in LoopKinds,
        e \in EdgeSeqs(1..3, MaxLoopEdges)}

LoopConditionKinds ==
    {"empty", "true", "false", "index_lt", "start_gt", "unsafe", "unsafe_name",
     "unsafe_operator", "unparsable", "number"}

\* Every loop type with every count and, for while and doWhile, every kind
\* of condition; while and doWhile loops without an `iterations` input.
AllLoopInputs ==
    {LoopInput("for", n, 0, Cond("empty", 0)) : n \in Counts}
    \cup {LoopInput("forEach", 1, n, Cond("empty", 0)) : n \in Counts}
    \cup {LoopInput(t, n, 0, Cond(kind, 2)) :
            t \in {"while", "doWhile"}, n \in Counts, kind \in LoopConditionKinds}
    \cup {[loopType |-> t, forEachItems |-> <<>>, condition |-> Cond(kind, 2)] :
            t \in {"while", "doWhile"}, kind \in {"empty", "true"}}

\* A loop container with each of these inputs over the children and
\* neighbours of LoopKinds, without edges.
LoopRuns ==
    {[blocks |-> [b \in 1..3 |->
                    CASE b = 1 -> Block(NamesMixed[1], "loop", NoId, li)
                      [] b = 2 -> Block(NamesMixed[2], k[1].type, k[1].parent_id,
                                        LoopInput("for", 1, 0, Cond("empty", 0)))
                      [] OTHER -> Block(NamesMixed[3], k[2].type, k[2].parent_id, NoInputs)],
      edges |-> <<>>,
      env |-> [faults |-> {MsgBoom}, server |-> Healthy]] :
        li \in AllLoopInputs, k \in LoopKinds}

\* A block whose handler meets every fault message, or an API or agent block
\* whose target or provider follows a script, and a response block after it.
RetryWorkflows ==
    {[blocks |-> [b \in 1..2 |-> Block(NamesMixed[b], IF b = 1 THEN "agent" ELSE "response",
                                       NoId, NoInputs)],
      edges |-> <<Edge(1, 2)>>,
      env |-> [faults |-> AllMessages, server |-> Healthy]]}
    \cup
    {[blocks |-> [b \in 1..2 |-> Block(NamesMixed[b], IF b = 1 THEN t ELSE "response",
                                       NoId, NoInputs)],
      edges |-> <<Edge(1, 2)>>,
      env |-> [faults |-> {}, server |-> sc]] : t \in {"api", "agent"}, sc \in ServerScripts}

\* The inputs of a function block.
FunctionInput(code) ==
    [loopType |-> "for", iterations |-> 0, forEachItems |-> <<>>,
     condition |-> Cond("empty", 0), code |-> code]

ItemTimesTwo == <<"_", "_", "r", "e", "t", "u", "r", "n", "_", "_", " ", "=", " ", "{", "\"", "v", "\"", ":", " ", "<", "_", "l", "o", "o", "p", ".", "i", "t", "e", "m", ">", " ", "*", " ", "2", "}">>

StartTimesTwo == <<"_", "_", "r", "e", "t", "u", "r", "n", "_", "_", " ", "=", " ", "{", "\"", "v", "\"", ":", " ", "<", "s", "t", "a", "r", "t", ".", "x", ">", " ", "*", " ", "2", "}">>

Programs == {ItemTimesTwo, StartTimesTwo, <<"_", "_", "r", "e", "t", "u", "r", "n", "_", "_", " ", "=", " ", "{", "\"", "v", "\"", ":", " ", "2", "1", " ", "*", " ", "2", "}">>, <<>>}

\* Scenario S3: a forEach container L over 10, 20, ... and a function block
\* C, its child or a top-level block.
FunctionWorkflows ==
    {[blocks |-> <<Block(<<"L">>, "loop", NoId, LoopInput("forEach", 1, n, Cond("empty", 0))),
                   Block(<<"C">>, "function", parent, FunctionInput(code))>>,
      edges |-> <<>>,
      env |-> [faults |-> {}, server |-> Healthy]] :
        n \in {2, MAX_LOOP_ITERATIONS}, parent \in {1, NoId}, code \in Programs}

MaxCycleEdges == 3

EdgeRank(e) == 3 * e.source + e.target

\* Three top-level blocks with handlers that do not fail, under every list
\* of MaxCycleEdges edges (one list for each multiset of edges).
CycleWorkflows ==
    {[blocks |-> [b \in 1..3 |-> Block(NamesMixed[b], "agent", NoId, NoInputs)],
      edges |-> e,
      env |-> [faults |-> {}, server |-> Healthy]] :
        e \in {f \in [1..MaxCycleEdges -> [source : 1..3, target : 1..3]] :
                  \A i \in 1..(MaxCycleEdges - 1) : EdgeRank(f[i]) <= EdgeRank(f[i + 1])}}

\* The conditions of the condition blocks: true and false on the request
\* (x = 5), rejected by the evaluator, absent
BranchConditions == {Cond("start_gt", 1), Cond("start_gt", 9), Cond("unsafe", 0),
                     Cond("empty", 0)}

BranchEdges ==
    {<<Edge(1, 2), Edge(1, 3)>>, <<Edge(1, 2), Edge(2, 3)>>, <<Edge(2, 1), Edge(1, 3)>>,
     <<Edge(3, 1)>>, <<Edge(1, 1), Edge(1, 3)>>, <<>>}

\* A condition or router block with an agent block and a response block, its
\* branches or its neighbours.
ConditionWorkflows ==
    {[blocks |-> <<Block(NamesMixed[1], t, NoId, LoopInput("for", 0, 0, c)),
                   Block(NamesMixed[2], "agent", NoId, NoInputs),
                   Block(NamesMixed[3], "response", NoId, NoInputs)>>,
      edges |-> e,
      env |-> [faults |-> {}, server |-> Healthy]] :
        t \in {"condition", "router"}, c \in BranchConditions, e \in BranchEdges}

Workflows ==
    FlatWorkflows \cup LoopWorkflows \cup RetryWorkflows \cup FunctionWorkflows
    \cup CycleWorkflows \cup ConditionWorkflows

IdleWorkflow == [blocks |-> <<>>, edges |-> <<>>,
                 env |-> [faults |-> {}, server |-> Healthy]]

(***************************************************************************)
(* Specifications                                                          *)
(***************************************************************************)
InitExecutor ==
    /\ execution_order = <<>>
    /\ idx = 0
    /\ block_outputs = EmptyDict
    /\ logs = <<>>
    /\ loop_states = EmptyDict
    /\ current_loop_id = NoId
    /\ loop = NoLoop
    /\ blk = NoBlk
    /\ clock = 0
    /\ final_output = NoOutput
    /\ result = NoResult
    /\ hist = [finished |-> <<>>]

\* No call in progress.
NoArgs == [fn |-> None]

NoRet == [done |-> FALSE]

InitNoCall ==
    /\ args = NoArgs
    /\ ret = NoRet

\* The pieces of a string with a reference between each two
RECURSIVE Join(_, _)
Join(pieces, ref) ==
    IF Len(pieces) = 1 THEN pieces[1]
    ELSE pieces[1] \o ref \o Join(Tail(pieces), ref)

\* The values of the round trip, each with the text an embedded reference
\* to it is to become.
Renderings ==
    {
      [v |-> PyNone,
       text |-> <<"n", "u", "l", "l">>],
      [v |-> PyBool(TRUE),
       text |-> <<"T", "r", "u", "e">>],
      [v |-> PyBool(FALSE),
       text |-> <<"F", "a", "l", "s", "e">>],
      [v |-> PyInt(0),
       text |-> <<"0">>],
      [v |-> PyInt(7),
       text |-> <<"7">>],
      [v |-> PyInt(-3),
       text |-> <<"-", "3">>],
      [v |-> PyInt(120),
       text |-> <<"1", "2", "0">>],
      [v |-> PyStr(<<>>),
       text |-> <<>>],
      [v |-> PyStr(<<"h", "i">>),
       text |-> <<"h", "i">>],
      [v |-> PyStr(<<"<", "a", ".", "b", ">">>),
       text |-> <<"<", "a", ".", "b", ">">>],
      [v |-> PyList(<<>>),
       text |-> <<"[", "]">>],
      [v |-> PyList(<<PyInt(1), PyStr(<<"a">>), PyNone>>),
       text |-> <<"[", "1", ",", " ", "\"", "a", "\"", ",", " ", "n", "u", "l", "l", "]">>],
      [v |-> PyDict(<<>>),
       text |-> <<"{", "}">>],
      [v |-> PyDict(<<Entry(<<"k">>, PyBool(TRUE)), Entry(<<"n">>, PyList(<<PyInt(2)>>))>>),
       text |-> <<"{", "\"", "k", "\"", ":", " ", "t", "r", "u", "e", ",", " ", "\"", "n", "\"", ":", " ", "[", "2", "]", "}">>]
    }

\* Block names as a reference writes them.
ReferenceNames == {<<"X">>, <<"b", "l", "k", "_", "1">>, <<"M", "y", "_", "B", "l", "o", "c", "k">>}

\* <X.y>, <X["y"]> and <X['y']>
Notations(x) ==
    {<<"<">> \o x \o <<".", "y", ">">>,
     <<"<">> \o x \o <<"[", "\"", "y", "\"", "]", ">">>,
     <<"<">> \o x \o <<"[", "'", "y", "'", "]", ">">>}

\* The blanks around a reference that is the whole string
Paddings == {<<<<>>, <<>>>>, <<<<" ", " ">>, <<" ">>>>}

\* The text around references embedded in a longer string
Embeddings ==
    {<<<<"v", "=">>, <<>>>>,
     <<<<"a", " ">>, <<" ", "b">>>>,
     <<<<>>, <<",", " ">>, <<" ", "<">>>>}

\* resolve on the inputs of a block: one input that is exactly a reference
\* to X.y and one that embeds it, with X's output {y: v}.
ResolverCases ==
    UNION {{[x |-> x, ref |-> ref, r |-> r, pad |-> pad, pieces |-> pieces] :
               ref \in Notations(x), r \in Renderings,
               pad \in Paddings, pieces \in Embeddings} : x \in ReferenceNames}

ResolverCalls ==
    {[fn |-> "resolve",
      value |-> PyDict(<<Entry(<<"e", "x", "a", "c", "t">>, PyStr(Join(c.pad, c.ref))),
                         Entry(<<"e", "m", "b", "e", "d", "d", "e", "d">>, PyStr(Join(c.pieces, c.ref)))>>),
      ctx |-> Context(PyDict(<<>>), PyDict(<<>>),
                      normalized(c.x) :> PyDict(<<Entry(<<"y">>, c.r.v)>>)),
      case |-> c] : c \in ResolverCases}

\* ReferenceResolver.resolve is called and returns.
ResolveCall ==
    /\ args.fn = "resolve"
    /\ ~ret.done
    /\ ret' = [done |-> TRUE, value |-> resolve(args.value, args.ctx)]
    /\ UNCHANGED <<rlvars, exvars, args, sysvars>>

\* The request bodies of the condition calls: x as in the router scenario,
\* f a value of each type.
RequestNumbers == {-1, 0, 5, 50}

RequestFlags ==
    {PyNone, PyBool(FALSE), PyBool(TRUE), PyInt(0), PyInt(5), PyStr(<<>>),
     PyList(<<>>), PyList(<<PyInt(1)>>)}

RequestContext(x, f) ==
    Context(PyDict(<<Entry(<<"x">>, PyInt(x)), Entry(<<"f">>, f)>>), PyDict(<<>>), <<>>)

\* A route, by the kind of its condition:
\*   gt       <start.x> > bound
\*   always   the boolean true
\*   empty    ''
\*   unsafe   nosuch > 1
\* and by whether it has a name.
RouteCase(kind, bound, name) == [kind |-> kind, bound |-> bound, name |-> name]

RouteCases ==
    {RouteCase("gt", 10, <<"b", "i", "g">>), RouteCase("gt", 0, <<"p", "o", "s">>), RouteCase("gt", 0, <<>>),
     RouteCase("always", 0, <<>>), RouteCase("empty", 0, <<"n", "o", "n", "e">>),
     RouteCase("unsafe", 0, <<"b", "a", "d">>)}

RouteCondition(case) ==
    CASE case.kind = "gt" -> PyStr(<<"<", "s", "t", "a", "r", "t", ".", "x", ">", " ", ">", " ">> \o IntToStr(case.bound))
      [] case.kind = "always" -> PyBool(TRUE)
      [] case.kind = "empty" -> PyStr(<<>>)
      [] OTHER -> PyStr(<<"n", "o", "s", "u", "c", "h", " ", ">", " ", "1">>)

RouteOf(case) ==
    PyDict(<<Entry(<<"c", "o", "n", "d", "i", "t", "i", "o", "n">>, RouteCondition(case))>>
           \o (IF case.name # <<>> THEN <<Entry(<<"n", "a", "m", "e">>, PyStr(case.name))>> ELSE <<>>))

MaxRoutes == 2

RouteSequences == UNION {[1..n -> RouteCases] : n \in 0..MaxRoutes}

\* A block with a routes sequence only.
RouterCalls ==
    {[fn |-> "execute",
      inputs |-> PyDict(<<Entry(<<"r", "o", "u", "t", "e", "s">>, PyList([i \in DOMAIN rs |-> RouteOf(rs[i])]))>>),
      ctx |-> RequestContext(x, PyNone),
      case |-> [shape |-> "routes", x |-> x, routes |-> rs]] :
        x \in RequestNumbers, rs \in RouteSequences}

\* A single condition, by kind:
\*   literal    the value f itself
\*   reference  <start.f>
\*   gt         <start.x> > 1
\*   attribute  start.x > 1
\*   call       foo(1)
\*   name       nosuch > 1
\*   operator   2 * 3
\*   identity   1 is 1
\*   syntax     1 +
SingleKinds ==
    {"literal", "reference", "gt", "attribute", "call", "name", "operator", "identity", "syntax"}

SingleCondition(kind, f) ==
    CASE kind = "literal" -> f
      [] kind = "reference" -> PyStr(<<"<", "s", "t", "a", "r", "t", ".", "f", ">">>)
      [] kind = "gt" -> PyStr(<<"<", "s", "t", "a", "r", "t", ".", "x", ">", " ", ">", " ", "1">>)
      [] kind = "attribute" -> PyStr(<<"s", "t", "a", "r", "t", ".", "x", " ", ">", " ", "1">>)
      [] kind = "call" -> PyStr(<<"f", "o", "o", "(", "1", ")">>)
      [] kind = "name" -> PyStr(<<"n", "o", "s", "u", "c", "h", " ", ">", " ", "1">>)
      [] kind = "operator" -> PyStr(<<"2", " ", "*", " ", "3">>)
      [] kind = "identity" -> PyStr(<<"1", " ", "i", "s", " ", "1">>)
      [] OTHER -> PyStr(<<"1", " ", "+">>)

\* A block with a condition input only.
SingleCalls ==
    {[fn |-> "execute",
      inputs |-> PyDict(<<Entry(<<"c", "o", "n", "d", "i", "t", "i", "o", "n">>, SingleCondition(kind, f))>>),
      ctx |-> RequestContext(x, f),
      case |-> [shape |-> "condition", x |-> x, f |-> f, kind |-> kind]] :
        x \in RequestNumbers, f \in RequestFlags, kind \in SingleKinds}

\* A while or doWhile container at the head of an iteration.
ContinueCalls ==
    {[fn |-> "_should_continue_loop",
      inputs |-> LoopInput(t, n, 0, Cond(kind, 2)),
      iteration |-> k] :
        t \in {"while", "doWhile"}, n \in {0, 2, MAX_LOOP_ITERATIONS + 1},
        kind \in LoopConditionKinds, k \in 0..MAX_LOOP_ITERATIONS}

\* _execute_block lines 184 and 202: the inputs of a condition block are
\* resolved and handed to the handler, which returns.
ConditionCall ==
    /\ args.fn = "execute"
    /\ ~ret.done
    /\ ret' = [done |-> TRUE, value |-> execute(args.ctx, resolve(args.inputs, args.ctx))]
    /\ UNCHANGED <<rlvars, exvars, args, sysvars>>

\* _execute_loop line 267: the state of a loop after some iterations, and
\* the decision to go on.
ContinueCall ==
    /\ args.fn = "_should_continue_loop"
    /\ ~ret.done
    /\ LET entered == InitialLoopState(ResolvedLoopInputs(args.inputs))
            state == [entered EXCEPT !.iteration = Min(args.iteration, entered.max_iterations)]
       IN  ret' = [done |-> TRUE, value |-> PyBool(_should_continue_loop(state))]
    /\ UNCHANGED <<rlvars, exvars, args, sysvars>>

\* The value the variables block assigns to `count`, as the workflow
\* document writes it.
AssignedValues ==
    {PyInt(3), PyInt(0), PyInt(-3), PyBool(TRUE), PyBool(FALSE), PyNone,
     PyStr(<<"h", "i">>), PyStr(<<>>), PyList(<<>>), PyList(<<PyInt(1)>>),
     PyDict(<<>>), PyDict(<<Entry(<<"k">>, PyInt(0))>>), PyStr(<<"<", "s", "t", "a", "r", "t", ".", "x", ">">>)}

\* The `data` input of the response block, by form:
\*   reference  <variable.count>
\*   padded     the same between blanks
\*   embedded   n=<variable.count>
\*   literal    the value written in place
\*   absent     no data input
DataForms == {"reference", "padded", "embedded", "literal", "absent"}

DataInput(form, v) ==
    CASE form = "reference" -> PyStr(<<"<", "v", "a", "r", "i", "a", "b", "l", "e", ".", "c", "o", "u", "n", "t", ">">>)
      [] form = "padded"    -> PyStr(<<" ", "<", "v", "a", "r", "i", "a", "b", "l", "e", ".", "c", "o", "u", "n", "t", ">", " ", " ">>)
      [] form = "embedded"  -> PyStr(<<"n", "=", "<", "v", "a", "r", "i", "a", "b", "l", "e", ".", "c", "o", "u", "n", "t", ">">>)
      [] OTHER              -> v

\* The other inputs of the response block, by shape.
ResponseShapes == {"raw", "default", "headers", "structured", "structured_empty"}

ResponseInputs(shape, form, v) ==
    PyDict((IF form = "absent" THEN <<>> ELSE <<Entry(<<"d", "a", "t", "a">>, DataInput(form, v))>>)
           \o (CASE shape = "raw" -> <<Entry(<<"d", "a", "t", "a", "M", "o", "d", "e">>, PyStr(<<"r", "a", "w">>))>>
                 [] shape = "default" -> <<>>
                 [] shape = "headers" ->
                       <<Entry(<<"d", "a", "t", "a", "M", "o", "d", "e">>, PyStr(<<"r", "a", "w">>)),
                         Entry(<<"s", "t", "a", "t", "u", "s">>, PyInt(201)),
                         Entry(<<"h", "e", "a", "d", "e", "r", "s">>, PyList(<<
                             PyDict(<<Entry(<<"c", "e", "l", "l", "s">>, PyDict(<<Entry(<<"K", "e", "y">>, PyStr(<<" ", "X", "-", "C", "o", "u", "n", "t", " ">>)),
                                                                Entry(<<"V", "a", "l", "u", "e">>, PyStr(<<"<", "v", "a", "r", "i", "a", "b", "l", "e", ".", "c", "o", "u", "n", "t", ">", " ">>))>>))>>),
                             PyDict(<<Entry(<<"c", "e", "l", "l", "s">>, PyDict(<<Entry(<<"K", "e", "y">>, PyStr(<<" ">>))>>))>>)>>))>>
                 [] shape = "structured" ->
                       <<Entry(<<"d", "a", "t", "a", "M", "o", "d", "e">>, PyStr(<<"s", "t", "r", "u", "c", "t", "u", "r", "e", "d">>)),
                         Entry(<<"b", "u", "i", "l", "d", "e", "r", "D", "a", "t", "a">>, PyList(<<
                             PyDict(<<Entry(<<"n", "a", "m", "e">>, PyStr(<<"n">>)),
                                      Entry(<<"v", "a", "l", "u", "e">>, PyStr(<<"<", "v", "a", "r", "i", "a", "b", "l", "e", ".", "c", "o", "u", "n", "t", ">">>))>>),
                             PyDict(<<Entry(<<"v", "a", "l", "u", "e">>, PyInt(1))>>)>>))>>
                 [] OTHER ->
                       <<Entry(<<"d", "a", "t", "a", "M", "o", "d", "e">>, PyStr(<<"s", "t", "r", "u", "c", "t", "u", "r", "e", "d">>)),
                         Entry(<<"b", "u", "i", "l", "d", "e", "r", "D", "a", "t", "a">>, PyList(<<>>))>>))

\* S1: a variables block that assigns count, then a response block, run on
\* the request {x: 7}.
ResponseCalls ==
    {[fn |-> "variables",
      inputs |-> PyDict(<<Entry(<<"v", "a", "r", "i", "a", "b", "l", "e", "s">>, PyList(<<
                     PyDict(<<Entry(<<"v", "a", "r", "i", "a", "b", "l", "e", "N", "a", "m", "e">>, PyStr(<<"c", "o", "u", "n", "t">>)), Entry(<<"v", "a", "l", "u", "e">>, v)>>),
                     PyDict(<<Entry(<<"v", "a", "r", "i", "a", "b", "l", "e", "N", "a", "m", "e">>, PyStr(<<>>)), Entry(<<"v", "a", "l", "u", "e">>, PyInt(1))>>)>>))>>),
      ctx |-> Context(PyDict(<<Entry(<<"x">>, PyInt(7))>>), PyDict(<<>>), EmptyDict),
      then |-> ResponseInputs(shape, form, v),
      case |-> [v |-> v, form |-> form, shape |-> shape]] :
        v \in AssignedValues, form \in DataForms, shape \in ResponseShapes}

\* _execute_block lines 184 and 202 on the variables block: its inputs are
\* resolved and handed to the handler, which updates ctx.workflow_variables.
VariablesCall ==
    /\ args.fn = "variables"
    /\ ~ret.done
    /\ LET returned == VariablesExecute(args.ctx, resolve(args.inputs, args.ctx))
       IN  ret' = [done |-> TRUE, value |-> returned.output, ctx |-> returned.ctx]
    /\ UNCHANGED <<rlvars, exvars, args, sysvars>>

\* _execute_block lines 184 and 202 on the response block that follows, in
\* the context the variables block left.
ResponseCall ==
    /\ args.fn = "variables"
    /\ ret.done
    /\ args' = [fn |-> "response", inputs |-> args.then, ctx |-> ret.ctx, case |-> args.case]
    /\ ret' = [done |-> TRUE, ctx |-> ret.ctx,
               value |-> ResponseExecute(ret.ctx, resolve(args.then, ret.ctx))]
    /\ UNCHANGED <<rlvars, exvars, sysvars>>

(***************************************************************************)
(* main.py: load_workflow and the endpoints                                *)
(***************************************************************************)
\* The file at WORKFLOW_PATH, by what load_workflow finds there:
\*   missing       no file
\*   malformed     not JSON
\*   unreadable    open fails
\*   null          the JSON text null
\*   empty         {}
\*   plain         {blocks, edges}
\*   wrapped       {state: {blocks, edges}}
\*   wrapped_bare  {state: {}}
WorkflowFiles ==
    {"missing", "malformed", "unreadable", "null", "empty", "plain", "wrapped", "wrapped_bare"}

PlainDocument ==
    PyDict(<<Entry(<<"b", "l", "o", "c", "k", "s">>, PyList(<<PyDict(<<Entry(<<"i", "d">>, PyStr(<<"a">>)),
                                                  Entry(<<"t", "y", "p", "e">>, PyStr(<<"s", "t", "a", "r", "t">>))>>)>>)),
             Entry(<<"e", "d", "g", "e", "s">>, PyList(<<>>))>>)

\* line 140: what json.load returns for the files it can read
RawData(file) ==
    CASE file = "null"         -> PyNone
      [] file = "empty"        -> PyDict(<<>>)
      [] file = "plain"        -> PlainDocument
      [] file = "wrapped"      -> PyDict(<<Entry(<<"s", "t", "a", "t", "e">>, PlainDocument)>>)
      [] OTHER                 -> PyDict(<<Entry(<<"s", "t", "a", "t", "e">>, PyDict(<<>>))>>)

\* key in d
HasKey(d, key) == \E i \in DOMAIN d.kids : d.kids[i].k = key

WarnNoKey == "No API key found"

WarnNotFound == "Workflow file not found"

WarnParse == "Failed to parse workflow"

WarnLoad == "Failed to load workflow"

\* validate_environment
validate_environment(has_api_key) == IF has_api_key THEN <<>> ELSE <<WarnNoKey>>

\* load_workflow: the globals it leaves
load_workflow(file, has_api_key) ==
    LET warnings == validate_environment(has_api_key)
        raw_data == RawData(file)
    IN  CASE file = "missing" ->
                [workflow_data |-> PyNone, startup_warnings |-> Append(warnings, WarnNotFound)]
          [] file = "malformed" ->
                [workflow_data |-> PyNone, startup_warnings |-> Append(warnings, WarnParse)]
          [] file = "unreadable" \/ raw_data.t # "dict" ->
                [workflow_data |-> PyNone, startup_warnings |-> Append(warnings, WarnLoad)]
          [] OTHER ->
                [workflow_data |->
                    IF HasKey(raw_data, <<"s", "t", "a", "t", "e">>) /\ HasKey(DictGet(raw_data, <<"s", "t", "a", "t", "e">>), <<"b", "l", "o", "c", "k", "s">>)
                    THEN DictGet(raw_data, <<"s", "t", "a", "t", "e">>)
                    ELSE raw_data,
                 startup_warnings |-> warnings]

\* The startup event runs, once, before any request is served.
Startup ==
    /\ startup = NotStarted
    /\ \E file \in WorkflowFiles, has_api_key \in BOOLEAN :
          LET loaded == load_workflow(file, has_api_key)
          IN  /\ startup' = [file |-> file, has_api_key |-> has_api_key]
              /\ workflow_data' = loaded.workflow_data
              /\ startup_warnings' = loaded.startup_warnings
    /\ UNCHANGED <<rlvars, exvars, fnvars, served, fs, agent, heap, runs>>

\* An answer of the server: the status code, what the body says, and
\* whether WorkflowExecutor.run was called.
Answer(code, body, engine) == [code |-> code, body |-> body, engine |-> engine]

\* health
health ==
    Answer("200",
           [status |-> IF Truthy(workflow_data) /\ startup_warnings = <<>>
                       THEN "healthy" ELSE "degraded",
            workflow_loaded |-> workflow_data # PyNone],
           FALSE)

\* readiness
readiness ==
    IF ~Truthy(workflow_data) THEN Answer("503", [detail |-> "Workflow not loaded"], FALSE)
    ELSE Answer("200", [ready |-> TRUE], FALSE)

\* execute: the result of the run is the body
execute_endpoint ==
    IF ~Truthy(workflow_data) THEN Answer("500", [detail |-> "No workflow loaded"], FALSE)
    ELSE Answer("200", [success |-> TRUE], TRUE)

ServerPaths == Paths \cup {"/other"}

\* call_next: the route of path p
Endpoint(p) ==
    CASE p = "/health"  -> health
      [] p = "/ready"   -> readiness
      [] p = "/execute" -> execute_endpoint
      [] OTHER          -> Answer("404", [detail |-> "Not Found"], FALSE)

\* A request is served: the middleware, then, unless it answered itself,
\* the endpoint.
Serve ==
    /\ startup # NotStarted
    /\ \E c \in Clients, p \in ServerPaths, cl \in ContentLengths :
          /\ Admission(c, p, cl, {0})
          /\ served' = [client |-> c, path |-> p, content_length |-> cl,
                        answer |-> IF resp'.status = "call_next" THEN Endpoint(p)
                                   ELSE Answer(resp'.status, [error |-> resp'.status], FALSE)]
    /\ UNCHANGED <<exvars, fnvars, startup, workflow_data, startup_warnings, fs, agent, heap, runs>>

(***************************************************************************)
(* tools.py: the sandboxed file tools on a filesystem                      *)
(***************************************************************************)
\* A path is the sequence of its components; the root is <<>>.
WORKSPACE_DIR == <<"ws">>

MAX_FILE_SIZE == 2

DirNode == [kind |-> "dir", size |-> 0, content |-> "", target |-> <<>>]

FileNode(size, content) == [kind |-> "file", size |-> size, content |-> content, target |-> <<>>]

LinkNode(target) == [kind |-> "link", size |-> 0, content |-> "", target |-> target]

IsPrefix(p, q) == Len(p) <= Len(q) /\ SubSeq(q, 1, Len(p)) = p

Parent(p) == IF p = <<>> THEN <<>> ELSE SubSeq(p, 1, Len(p) - 1)

RECURSIVE Walk(_, _, _)
\* The walk of the components `rest` from the directory `cur`: .. goes up, a
\* symbolic link is followed, a missing component is taken as it is named.
Walk(nodes, cur, rest) ==
    IF rest = <<>> THEN cur
    ELSE IF Head(rest) = ".." THEN Walk(nodes, Parent(cur), Tail(rest))
    ELSE IF Head(rest) = "." THEN Walk(nodes, cur, Tail(rest))
    ELSE LET next == Append(cur, Head(rest))
         IN  IF next \in DOMAIN nodes /\ nodes[next].kind = "link"
             THEN Walk(nodes, <<>>, nodes[next].target \o Tail(rest))
             ELSE Walk(nodes, next, Tail(rest))

\* Where the operating system finds the file named by the absolute path p
Physical(nodes, p) == Walk(nodes, <<>>, p)

RECURSIVE Lexical(_, _)
Lexical(cur, rest) ==
    IF rest = <<>> THEN cur
    ELSE IF Head(rest) = ".." THEN Lexical(Parent(cur), Tail(rest))
    ELSE IF Head(rest) = "." THEN Lexical(cur, Tail(rest))
    ELSE Lexical(Append(cur, Head(rest)), Tail(rest))

Path_resolveLexical(nodes, p) == Lexical(<<>>, p)

\* line 88: p.resolve()
Path_resolve(nodes, p) == Walk(nodes, <<>>, p)

\* mkdir(parents=True, exist_ok=True) of the directory dir
MkdirParents(nodes, dir) ==
    LET prefixes == {SubSeq(dir, 1, k) : k \in 0..Len(dir)}
    IN  IF \E q \in prefixes : q \in DOMAIN nodes /\ nodes[q].kind # "dir"
        THEN [ok |-> FALSE, nodes |-> nodes]
        ELSE [ok |-> TRUE,
              nodes |-> [q \in DOMAIN nodes \cup prefixes |->
                            IF q \in DOMAIN nodes THEN nodes[q] ELSE DirNode]]

\* _ensure_workspace
_ensure_workspace(nodes) == MkdirParents(nodes, WORKSPACE_DIR).nodes

\* lines 82-84: a relative path is taken from WORKSPACE_DIR
Joined(path) == IF path.absolute THEN path.parts ELSE WORKSPACE_DIR \o path.parts

\* _safe_path: the filesystem it leaves, and the resolved path or the ValueError
_safe_path(nodes, path) ==
    LET ensured == _ensure_workspace(nodes)
        resolved == Path_resolve(ensured, Joined(path))
    IN  [nodes |-> ensured, resolved |-> resolved, ok |-> IsPrefix(WORKSPACE_DIR, resolved)]

ErrDisabled == "Native file tools disabled"

ErrEscapes == "Path escapes sandbox"

ErrTooLarge == "Content exceeds maximum file size"

ErrAppend == "Appending would exceed maximum file size"

ErrPadding == "Incorrect padding"

ErrNotFound == "File not found"

ErrDirectory == "Cannot delete directory with delete_file"

ErrOs == "OSError"

Failure(nodes, error) == [nodes |-> nodes, value |-> [success |-> FALSE, error |-> error]]

Success(nodes) == [nodes |-> nodes, value |-> [success |-> TRUE, error |-> ""]]

\* p.parent.mkdir(parents=True, exist_ok=True), then the file at p written
\* with `size` bytes
WriteAt(nodes, p, size) ==
    LET at == Physical(nodes, p)
        made == MkdirParents(nodes, Parent(at))
    IN  IF ~made.ok THEN Failure(nodes, ErrOs)
        ELSE IF at \in DOMAIN made.nodes /\ made.nodes[at].kind = "dir"
        THEN Failure(made.nodes, ErrOs)
        ELSE Success([q \in DOMAIN made.nodes \cup {at} |->
                         IF q = at THEN FileNode(size, "new") ELSE made.nodes[q]])

\* write_file with content of `size` bytes
write_file(nodes, path, size) ==
    IF size > MAX_FILE_SIZE THEN Failure(nodes, ErrTooLarge)
    ELSE LET p == _safe_path(nodes, path)
         IN  IF ~p.ok THEN Failure(p.nodes, ErrEscapes)
             ELSE WriteAt(p.nodes, p.resolved, size)

\* write_bytes with data that decodes to `size` bytes, or does not decode
write_bytes(nodes, path, size, decodes) ==
    IF ~decodes THEN Failure(nodes, ErrPadding)
    ELSE IF size > MAX_FILE_SIZE THEN Failure(nodes, ErrTooLarge)
    ELSE LET p == _safe_path(nodes, path)
         IN  IF ~p.ok THEN Failure(p.nodes, ErrEscapes)
             ELSE WriteAt(p.nodes, p.resolved, size)

\* append_file with content of `size` bytes
append_file(nodes, path, size) ==
    LET p == _safe_path(nodes, path)
        at == Physical(p.nodes, p.resolved)
        current_size == IF at \in DOMAIN p.nodes THEN p.nodes[at].size ELSE 0
    IN  IF ~p.ok THEN Failure(p.nodes, ErrEscapes)
        ELSE IF current_size + size > MAX_FILE_SIZE THEN Failure(p.nodes, ErrAppend)
        ELSE WriteAt(p.nodes, p.resolved, current_size + size)

\* delete_file
delete_file(nodes, path) ==
    LET p == _safe_path(nodes, path)
        at == Physical(p.nodes, p.resolved)
    IN  IF ~p.ok THEN Failure(p.nodes, ErrEscapes)
        ELSE IF at \notin DOMAIN p.nodes THEN Failure(p.nodes, ErrNotFound)
        ELSE IF p.nodes[at].kind = "dir" THEN Failure(p.nodes, ErrDirectory)
        ELSE Success([q \in DOMAIN p.nodes \ {at} |-> p.nodes[q]])

Rel(parts) == [absolute |-> FALSE, parts |-> parts]

Abs(parts) == [absolute |-> TRUE, parts |-> parts]

\* The path arguments: relative, absolute, with .., through a symbolic link,
\* out of the workspace and back into it.
ToolPaths ==
    {Rel(<<"deep", "new.txt">>), Rel(<<"..", "ws", "a.txt">>),
     Rel(<<"..", "etc", "passwd">>), Abs(<<"etc", "passwd">>),
     Rel(<<"sub", "..", "..", "ws2", "x">>),
     Rel(<<"link", "hosts">>), Rel(<<"flink">>)}

BytesPaths == {Rel(<<"deep", "new.txt">>), Rel(<<"..", "etc", "passwd">>), Rel(<<"flink">>)}

ContentSizes == {1, MAX_FILE_SIZE + 1}

ToolCalls ==
    {[fn |-> "write_file", path |-> p, size |-> n, decodes |-> TRUE] :
        p \in ToolPaths, n \in ContentSizes}
    \cup {[fn |-> "write_bytes", path |-> p, size |-> n, decodes |-> d] :
            p \in BytesPaths, n \in ContentSizes, d \in BOOLEAN}
    \cup {[fn |-> "append_file", path |-> p, size |-> 1, decodes |-> TRUE] : p \in ToolPaths}
    \cup {[fn |-> "delete_file", path |-> p, size |-> 0, decodes |-> TRUE] : p \in ToolPaths}

\* The tool of the call on the filesystem `nodes`
Tool(call, nodes) ==
    CASE call.fn = "write_file"  -> write_file(nodes, call.path, call.size)
      [] call.fn = "write_bytes" -> write_bytes(nodes, call.path, call.size, call.decodes)
      [] call.fn = "append_file" -> append_file(nodes, call.path, call.size)
      [] OTHER                   -> delete_file(nodes, call.path)

\* The paths whose node differs between two filesystems
Changed(before, after) ==
    {p \in DOMAIN before \cup DOMAIN after :
        \/ p \notin DOMAIN before
        \/ p \notin DOMAIN after
        \/ before[p] # after[p]}

\* A native tool is called: _check_enabled, then the tool.  The return value
\* is kept with what the call did to the filesystem.
ToolCall ==
    /\ \E call \in ToolCalls :
          LET returned == IF ~fs.workspace_set THEN Failure(fs.nodes, ErrDisabled)
                          ELSE Tool(call, fs.nodes)
              Observed(changed) ==
                  [done |-> TRUE, value |-> returned.value,
                   escapes |-> ~IsPrefix(WORKSPACE_DIR, Physical(fs.nodes, Joined(call.path))),
                   changed |-> changed]
          IN  /\ args' = call
              /\ fs' = [fs EXCEPT !.nodes = returned.nodes]
              /\ ret' = ByValue(Observed, Changed(fs.nodes, returned.nodes))
    /\ UNCHANGED <<rlvars, exvars, srvvars, agent, heap, runs>>

\* The filesystems at the start: outside the workspace /etc/passwd and the
\* sibling directory /ws2; the workspace missing, empty, holding a file and a
\* directory, or holding also links to /etc and to /etc/passwd.
OutsideNodes ==
    (<<>> :> DirNode) @@ (<<"etc">> :> DirNode) @@ (<<"ws2">> :> DirNode)
    @@ (<<"etc", "passwd">> :> FileNode(1, "old"))

WorkspaceNodes ==
    (<<"ws">> :> DirNode) @@ (<<"ws", "a.txt">> :> FileNode(1, "old"))
    @@ (<<"ws", "sub">> :> DirNode)

LinkNodes ==
    (<<"ws", "link">> :> LinkNode(<<"etc">>))
    @@ (<<"ws", "flink">> :> LinkNode(<<"etc", "passwd">>))

Filesystems ==
    {OutsideNodes,
     OutsideNodes @@ (<<"ws">> :> DirNode),
     OutsideNodes @@ WorkspaceNodes,
     OutsideNodes @@ WorkspaceNodes @@ LinkNodes}

(***************************************************************************)
(* handlers/agent.py: the tool registry and the tool-use loops             *)
(***************************************************************************)
MAX_TOOL_ITERATIONS == 3

Providers == {"anthropic", "openai", "azure-openai", "google", "vertex"}

NativeTool(name) == [type |-> "native", name |-> name]

McpTool(name) == [type |-> "mcp", name |-> name]

\* The tools list of the block's inputs
ToolConfigs ==
    {<<>>,
     <<[type |-> "native", name |-> "execute_command"]>>,
     <<[type |-> "mcp", name |-> "search"]>>}

\* is_command_execution_enabled
is_command_execution_enabled(workspace_set, command_enabled) == workspace_set /\ command_enabled

\* _get_native_file_tools: the names offered, local_execute_command only
\* when command execution is enabled
_get_native_file_tools(workspace_set, command_enabled) ==
    IF ~workspace_set THEN {}
    ELSE {"local_write_file"}
         \cup (IF is_command_execution_enabled(workspace_set, command_enabled)
               THEN {"local_execute_command"} ELSE {})

LocalNames == [local_write_file |-> "write_file", local_execute_command |-> "execute_command"]

RECURSIVE Registered(_, _, _)
\* lines 299-337: the tools of the configuration enter the registry under
\* their own name
Registered(tools_config, i, tool_registry) ==
    IF i > Len(tools_config) THEN tool_registry
    ELSE LET tool == tools_config[i]
             entry == IF tool.type = "mcp" THEN McpTool(tool.name) ELSE NativeTool(tool.name)
         IN  Registered(tools_config, i + 1,
                        [n \in DOMAIN tool_registry \cup {tool.name} |->
                            IF n = tool.name THEN entry ELSE tool_registry[n]])

\* _build_tools: self.tool_registry
_build_tools(tools_config, workspace_set, command_enabled) ==
    Registered(tools_config, 1,
               [n \in _get_native_file_tools(workspace_set, command_enabled) |->
                   NativeTool(LocalNames[n])])

Commands == {"ls", "ls | wc"}

\* tools.execute_command without cwd: what it does to the filesystem and
\* whether subprocess.run is reached
execute_command(command, env) ==
    IF ~env.workspace_set THEN [env EXCEPT !.failed = @ + 1]
    ELSE IF command = "ls | wc" THEN [env EXCEPT !.nodes = _ensure_workspace(@), !.failed = @ + 1]
    ELSE [env EXCEPT !.nodes = _ensure_workspace(@), !.commands = @ + 1]

\* _execute_native_tool
_execute_native_tool(tool_info, tool_input, env) ==
    CASE tool_info.name = "write_file" ->
            IF ~env.workspace_set THEN [env EXCEPT !.failed = @ + 1]
            ELSE LET written == write_file(env.nodes, Rel(<<"deep", "new.txt">>), 1)
                 IN  [env EXCEPT !.nodes = written.nodes]
      [] tool_info.name = "execute_command" -> execute_command(tool_input, env)
      [] OTHER -> [env EXCEPT !.failed = @ + 1]

\* _execute_tool: an unknown tool is an error; an MCP tool is called on its
\* server
_execute_tool(tool_registry, tool_use, env) ==
    IF tool_use.name \notin DOMAIN tool_registry THEN [env EXCEPT !.failed = @ + 1]
    ELSE IF tool_registry[tool_use.name].type = "mcp" THEN env
    ELSE _execute_native_tool(tool_registry[tool_use.name], tool_use.input, env)

RECURSIVE ExecuteTools(_, _, _, _)
\* for tool_use in tool_uses
ExecuteTools(tool_registry, tool_uses, i, env) ==
    IF i > Len(tool_uses) THEN env
    ELSE ExecuteTools(tool_registry, tool_uses, i + 1,
                      _execute_tool(tool_registry, tool_uses[i], env))

ToolUse(name, input) == [name |-> name, input |-> input]

ToolUses ==
    {ToolUse("execute_command", c) : c \in Commands}
    \cup {ToolUse("local_execute_command", "ls"), ToolUse("local_write_file", ""),
          ToolUse("search", "")}

\* The replies of a provider: text only, or tool calls, with or without the
\* signal that the turn has ended
Replies ==
    {[tool_uses |-> <<>>, stop |-> s] : s \in BOOLEAN}
    \cup {[tool_uses |-> <<u>>, stop |-> FALSE] : u \in ToolUses}
    \cup {[tool_uses |-> <<ToolUse("execute_command", "ls")>>, stop |-> TRUE]}

NoReply == [tool_uses |-> <<>>, stop |-> FALSE]

\* MAX_MESSAGE_HISTORY = 30 in the source; the model runs the same code with
\* the limit scaled down so that the tool loop reaches it.
MAX_MESSAGE_HISTORY == 4

\* A message of the history: its role and its content, by what it holds:
\*   request  messages_text, the user's request
\*   reply    what the provider answered in iteration n
\*   result   the results of the tools called in iteration n
\*   omitted  the marker "[Previous n conversation turns omitted ...]"
Message(role, kind, n) == [role |-> role, kind |-> kind, n |-> n]

\* messages = [{'role': 'user', 'content': messages_text}]
UserRequest == Message("user", "request", 0)

_prune_messagesOff(messages, keep_first) ==
    IF Len(messages) <= MAX_MESSAGE_HISTORY THEN messages
    ELSE SubSeq(messages, Len(messages) - MAX_MESSAGE_HISTORY + 1, Len(messages))

\* AgentBlockHandler._prune_messages
_prune_messages(messages, keep_first) ==
    IF Len(messages) <= MAX_MESSAGE_HISTORY THEN messages
    ELSE LET keep_recent == MAX_MESSAGE_HISTORY - keep_first
             pruned == SubSeq(messages, 1, keep_first)
                       \o (IF keep_recent = 0 THEN messages
                           ELSE SubSeq(messages, Len(messages) - keep_recent + 1, Len(messages)))
         IN  IF Len(pruned) > keep_first
             THEN SubSeq(pruned, 1, keep_first)
                  \o <<Message("user", "omitted", Len(messages) - MAX_MESSAGE_HISTORY)>>
                  \o SubSeq(pruned, keep_first + 1, Len(pruned))
             ELSE pruned

\* The messages that carry the results of the tools of iteration n: one
\* user message for Anthropic (line 557), one tool message for each call
\* for the OpenAI clients (lines 635, 701)
ToolMessages(provider, tool_uses, n) ==
    IF provider = "anthropic" THEN <<Message("user", "result", n)>>
    ELSE [j \in 1..Len(tool_uses) |-> Message("tool", "result", n)]

\* The environment of the process and what the tools did in it
Env(a) == [nodes |-> fs.nodes, workspace_set |-> fs.workspace_set,
           command_enabled |-> a.command_enabled, commands |-> a.commands, failed |-> 0]

Finished(a, output) == [a EXCEPT !.pc = "done", !.output = output]

\* execute, lines 471-484: without an API key nothing is sent; _build_tools;
\* the Google chat sends the first message before its loop
AgentStart ==
    /\ agent.pc = "start"
    /\ \/ /\ ~agent.api_key
          /\ agent' = Finished(agent, "error")
       \/ /\ agent.api_key
          /\ LET tool_registry == _build_tools(agent.tools_config, fs.workspace_set,
                                               agent.command_enabled)
             IN  IF agent.provider \in {"google", "vertex"}
                 THEN \E r \in {q \in Replies : ~q.stop} :
                         agent' = [agent EXCEPT !.pc = "loop", !.tool_registry = tool_registry,
                                                !.sent = 1, !.response = r]
                 ELSE agent' = [agent EXCEPT !.pc = "loop", !.tool_registry = tool_registry,
                                             !.messages = <<UserRequest>>]
    /\ UNCHANGED <<rlvars, exvars, fnvars, srvvars, fs, heap, runs>>

\* One pass of the loops of _execute_anthropic, _execute_openai_compatible
\* and _execute_azure_openai: a request, the reply appended to the history,
\* the break on a reply without tool calls or with the stop signal, the
\* tools, their results appended and the history pruned
AgentIteration ==
    /\ agent.pc = "loop"
    /\ agent.provider \notin {"google", "vertex"}
    /\ agent.iteration < MAX_TOOL_ITERATIONS
    /\ \E r \in Replies :
          LET sent == [agent EXCEPT !.sent = @ + 1, !.response = r,
                                    !.messages = Append(@, Message("assistant", "reply",
                                                                   agent.iteration))]
              env == ExecuteTools(agent.tool_registry, r.tool_uses, 1, Env(agent))
          IN  IF r.tool_uses = <<>> \/ r.stop
              THEN agent' = Finished(sent, "content") /\ fs' = fs
              ELSE /\ agent' = [sent EXCEPT !.iteration = @ + 1, !.commands = env.commands,
                                           !.messages = _prune_messages(
                                               @ \o ToolMessages(agent.provider, r.tool_uses,
                                                                 agent.iteration), 1)]
                   /\ fs' = [fs EXCEPT !.nodes = env.nodes]
    /\ UNCHANGED <<rlvars, exvars, fnvars, srvvars, heap, runs>>

\* One pass of the loop of _execute_google: the break on a response without
\* function calls, the tools, the function responses sent
GoogleIteration ==
    /\ agent.pc = "loop"
    /\ agent.provider \in {"google", "vertex"}
    /\ agent.iteration < MAX_TOOL_ITERATIONS
    /\ IF agent.response.tool_uses = <<>>
       THEN agent' = Finished(agent, "content") /\ fs' = fs
       ELSE \E r \in {q \in Replies : ~q.stop} :
               LET env == ExecuteTools(agent.tool_registry, agent.response.tool_uses, 1,
                                       Env(agent))
               IN  /\ agent' = [agent EXCEPT !.sent = @ + 1, !.response = r,
                                             !.iteration = @ + 1, !.commands = env.commands]
                   /\ fs' = [fs EXCEPT !.nodes = env.nodes]
    /\ UNCHANGED <<rlvars, exvars, fnvars, srvvars, heap, runs>>

\* range(MAX_TOOL_ITERATIONS) is exhausted
AgentExhausted ==
    /\ agent.pc = "loop"
    /\ agent.iteration = MAX_TOOL_ITERATIONS
    /\ agent' = Finished(agent, "content")
    /\ UNCHANGED <<rlvars, exvars, fnvars, srvvars, fs, heap, runs>>

\* The request to the provider raises: except Exception returns the error
AgentFault ==
    /\ agent.pc = "loop"
    /\ agent.iteration < MAX_TOOL_ITERATIONS
    /\ agent.provider \in {"google", "vertex"} => agent.response.tool_uses # <<>>
    /\ agent' = Finished([agent EXCEPT !.sent = @ + 1], "error")
    /\ UNCHANGED <<rlvars, exvars, fnvars, srvvars, fs, heap, runs>>

(***************************************************************************)
(* main.py execute and executor.py run: concurrent requests                *)
(***************************************************************************)
MaxRequests == 2

RequestIds == 1..MaxRequests

\* What the response block of the document reads: the variable set by the
\* variables block, or that block's output
RequestData == {<<"<", "v", "a", "r", "i", "a", "b", "l", "e", ".", "c", "o", "u", "n", "t", ">">>, <<"<", "v", "a", "r", "s", ".", "u", "p", "d", "a", "t", "e", "d", ".", "c", "o", "u", "n", "t", ">">>}

\* start -> vars (count = <start.x>) -> out (response, raw, data)
RequestDocument(data) ==
    PyDict(<<Entry(<<"b", "l", "o", "c", "k", "s">>, PyList(<<
                PyDict(<<Entry(<<"i", "d">>, PyStr(<<"a">>)), Entry(<<"n", "a", "m", "e">>, PyStr(<<"s", "t", "a", "r", "t">>)),
                         Entry(<<"t", "y", "p", "e">>, PyStr(<<"s", "t", "a", "r", "t">>)), Entry(<<"i", "n", "p", "u", "t", "s">>, PyDict(<<>>))>>),
                PyDict(<<Entry(<<"i", "d">>, PyStr(<<"b">>)), Entry(<<"n", "a", "m", "e">>, PyStr(<<"v", "a", "r", "s">>)),
                         Entry(<<"t", "y", "p", "e">>, PyStr(<<"v", "a", "r", "i", "a", "b", "l", "e", "s">>)),
                         Entry(<<"i", "n", "p", "u", "t", "s">>, PyDict(<<Entry(<<"v", "a", "r", "i", "a", "b", "l", "e", "s">>, PyList(<<
                             PyDict(<<Entry(<<"v", "a", "r", "i", "a", "b", "l", "e", "N", "a", "m", "e">>, PyStr(<<"c", "o", "u", "n", "t">>)),
                                      Entry(<<"v", "a", "l", "u", "e">>, PyStr(<<"<", "s", "t", "a", "r", "t", ".", "x", ">">>))>>)>>))>>))>>),
                PyDict(<<Entry(<<"i", "d">>, PyStr(<<"c">>)), Entry(<<"n", "a", "m", "e">>, PyStr(<<"o", "u", "t">>)),
                         Entry(<<"t", "y", "p", "e">>, PyStr(<<"r", "e", "s", "p", "o", "n", "s", "e">>)),
                         Entry(<<"i", "n", "p", "u", "t", "s">>, PyDict(<<Entry(<<"d", "a", "t", "a", "M", "o", "d", "e">>, PyStr(<<"r", "a", "w">>)),
                                                    Entry(<<"d", "a", "t", "a">>, PyStr(data))>>))>>)>>)),
             Entry(<<"e", "d", "g", "e", "s">>, PyList(<<
                PyDict(<<Entry(<<"s", "o", "u", "r", "c", "e">>, PyStr(<<"a">>)), Entry(<<"t", "a", "r", "g", "e", "t">>, PyStr(<<"b">>))>>),
                PyDict(<<Entry(<<"s", "o", "u", "r", "c", "e">>, PyStr(<<"b">>)), Entry(<<"t", "a", "r", "g", "e", "t">>, PyStr(<<"c">>))>>)>>))>>)

\* The blocks of the document in execution order (the chain of its edges)
OrderedBlocks(document) ==
    LET blocks == DictGet(document, <<"b", "l", "o", "c", "k", "s">>).kids
    IN  [i \in DOMAIN blocks |-> blocks[i].v]

\* The request bodies: a number, or a string written like a reference
RequestInputs ==
    {PyDict(<<Entry(<<"x">>, v)>>) : v \in {PyInt(1), PyInt(2), PyStr(<<"<", "v", "a", "r", "i", "a", "b", "l", "e", ".", "s", "e", "c", "r", "e", "t", ">">>)}}

\* The workflow variables of the environment (WORKFLOW_VAR_SECRET), which no
\* block of the document names
EnvironmentVariables ==
    {PyDict(<<>>)} \cup {PyDict(<<Entry(<<"s", "e", "c", "r", "e", "t">>, PyInt(n))>>) : n \in {7, 8}}

NoRun == [state |-> "idle", inputs |-> PyNone, position |-> 0, variables |-> 0,
          outputs |-> 0, logs |-> 0, final_output |-> PyNone, result |-> NoResult]

AllocateShared(objects, objs) ==
    [heap |-> IF objects = <<>> THEN objs ELSE objects,
     ids |-> [i \in 1..Len(objs) |-> i]]

\* initial_vars (main.py:197-205) and the default_factory fields of
\* ExecutionContext: new objects
Allocate(objects, objs) ==
    [heap |-> objects \o objs,
     ids |-> [i \in 1..Len(objs) |-> Len(objects) + i]]

\* The execution context of a run and the locals of run(), the mutable
\* objects read from the heap
Frame(run, objects) ==
    [ctx |-> Context(run.inputs, objects[run.variables], objects[run.outputs]),
     logs |-> objects[run.logs],
     final_output |-> run.final_output]

\* run(), one pass of its loop on a leaf block: _execute_block with the
\* handler of the block's type, the output stored under the block's keys and
\* logged
RunBlock(block, frame) ==
    LET type == DictGet(block, <<"t", "y", "p", "e">>).s
        name == DictGet(block, <<"n", "a", "m", "e">>).s
        Stored(returned) ==
            [ctx |-> [returned.ctx EXCEPT !.block_outputs =
                         [k \in DOMAIN @ \cup {normalized(name), name} |->
                             IF k \in {normalized(name), name} THEN returned.output ELSE @[k]]],
             logs |-> Append(frame.logs, [blockId |-> DictGet(block, <<"i", "d">>).s,
                                          success |-> TRUE, output |-> returned.output]),
             final_output |-> IF type = <<"r", "e", "s", "p", "o", "n", "s", "e">> THEN returned.output
                              ELSE frame.final_output]
        Handled(inputs) ==
            CASE type = <<"v", "a", "r", "i", "a", "b", "l", "e", "s">> -> VariablesExecute(frame.ctx, inputs)
              [] type = <<"r", "e", "s", "p", "o", "n", "s", "e">>  -> [ctx |-> frame.ctx,
                                          output |-> ResponseExecute(frame.ctx, inputs)]
              [] OTHER                -> [ctx |-> frame.ctx, output |-> frame.ctx.inputs]
        Run(inputs) == ByValue(Stored, Handled(inputs))
    IN  ByValue(Run, resolve(DictGet(block, <<"i", "n", "p", "u", "t", "s">>), frame.ctx))

\* The value run() returns
RunResult(frame) ==
    [success |-> TRUE, output |-> frame.final_output, error |-> None, logs |-> frame.logs]

\* POST /execute of request r reaches the endpoint: a new executor, new
\* workflow variables read from the environment, a new ExecutionContext
ExecuteStart(r) ==
    /\ runs[r].state = "idle"
    /\ Truthy(workflow_data)
    /\ \E inputs \in RequestInputs :
          LET new == Allocate(heap, <<startup.workflow_vars, EmptyDict, <<>>>>)
          IN  /\ heap' = new.heap
              /\ runs' = [runs EXCEPT ![r] = [NoRun EXCEPT !.state = "running",
                                                          !.inputs = inputs,
                                                          !.position = 1,
                                                          !.variables = new.ids[1],
                                                          !.outputs = new.ids[2],
                                                          !.logs = new.ids[3]]]
    /\ UNCHANGED <<rlvars, exvars, fnvars, srvvars, fs, agent>>

\* The run of request r executes its next block; other runs go on between
\* two blocks.
ExecuteStep(r) ==
    /\ runs[r].state = "running"
    /\ runs[r].position <= Len(OrderedBlocks(workflow_data))
    /\ LET Kept(frame) ==
              /\ heap' = [heap EXCEPT ![runs[r].variables] = frame.ctx.workflow_variables,
                                      ![runs[r].outputs] = frame.ctx.block_outputs,
                                      ![runs[r].logs] = frame.logs]
              /\ runs' = [runs EXCEPT ![r].position = @ + 1,
                                      ![r].final_output = frame.final_output]
       IN  Kept(RunBlock(OrderedBlocks(workflow_data)[runs[r].position], Frame(runs[r], heap)))
    /\ UNCHANGED <<rlvars, exvars, fnvars, srvvars, fs, agent>>

\* The run of request r returns; the endpoint returns its result.
ExecuteReturn(r) ==
    /\ runs[r].state = "running"
    /\ runs[r].position > Len(OrderedBlocks(workflow_data))
    /\ runs' = [runs EXCEPT ![r].state = "done",
                            ![r].result = RunResult(Frame(runs[r], heap))]
    /\ UNCHANGED <<rlvars, exvars, fnvars, srvvars, fs, agent, heap>>

\* The executor on a workflow; the middleware is idle.
Init ==
    /\ InitRL
    /\ InitSysIdle
    /\ wf \in Workflows
    /\ pc = "init"
    /\ InitExecutor
    /\ InitNoCall

Next ==
    \/ StartRun
    \/ ExecNoHandler
    \/ ExecBegin
    \/ AttemptReturns
    \/ AttemptRetries
    \/ AttemptFails
    \/ LoopEnter
    \/ LoopIterate
    \/ LoopExit
    \/ LoopIterationEnd
    \/ RunDone

Spec == Init /\ [][Next]_vars

\* The executor on the loops of every type, count and condition, and on the
\* retried blocks.
InitLoops ==
    /\ InitRL
    /\ InitSysIdle
    /\ wf \in LoopRuns \cup RetryWorkflows
    /\ pc = "init"
    /\ InitExecutor
    /\ InitNoCall

\* Every handler call returns or raises, and the executor takes its next step.
FairSpec == InitLoops /\ [][Next]_vars /\ WF_vars(Next)

\* The middleware under requests and the passing of time; no run in progress.
InitAdmission ==
    /\ InitRL
    /\ InitSysIdle
    /\ wf = IdleWorkflow
    /\ pc = "idle"
    /\ InitExecutor
    /\ InitNoCall

NextRL ==
    \/ Tick
    \/ Request

SpecRL == InitAdmission /\ [][NextRL]_vars

\* The resolver on one call; no run in progress and the middleware idle.
InitResolver ==
    /\ InitRL
    /\ InitSysIdle
    /\ wf = IdleWorkflow
    /\ pc = "idle"
    /\ InitExecutor
    /\ args \in ResolverCalls
    /\ ret = NoRet

NextResolver == ResolveCall

SpecResolver == InitResolver /\ [][NextResolver]_vars

\* The condition handler and the loop's continuation test on one call; no
\* run in progress and the middleware idle.
InitCondition ==
    /\ InitRL
    /\ InitSysIdle
    /\ wf = IdleWorkflow
    /\ pc = "idle"
    /\ InitExecutor
    /\ args \in RouterCalls \cup SingleCalls \cup ContinueCalls
    /\ ret = NoRet

NextCondition ==
    \/ ConditionCall
    \/ ContinueCall

SpecCondition == InitCondition /\ [][NextCondition]_vars


\* The variables and response handlers on the chain of S1; no run in
\* progress and the middleware idle.
InitResponse ==
    /\ InitRL
    /\ InitSysIdle
    /\ wf = IdleWorkflow
    /\ pc = "idle"
    /\ InitExecutor
    /\ args \in ResponseCalls
    /\ ret = NoRet

NextResponse ==
    \/ VariablesCall
    \/ ResponseCall

SpecResponse == InitResponse /\ [][NextResponse]_vars


\* The server from process start: the startup event, then requests, all
\* within one tick of the clock.
InitServer ==
    /\ InitRL
    /\ startup = NotStarted
    /\ workflow_data = PyNone
    /\ startup_warnings = <<>>
    /\ served = NotServed
    /\ fs = None
    /\ agent = None
    /\ heap = <<>>
    /\ runs = <<>>
    /\ wf = IdleWorkflow
    /\ pc = "idle"
    /\ InitExecutor
    /\ InitNoCall

NextServer ==
    \/ Startup
    \/ Serve

SpecServer == InitServer /\ [][NextServer]_vars


\* Any sequence of calls of the file tools, WORKSPACE_DIR set or not.
InitTools ==
    /\ InitRL
    /\ startup = NotStarted
    /\ workflow_data = None
    /\ startup_warnings = <<>>
    /\ served = NotServed
    /\ fs \in [nodes : Filesystems, workspace_set : BOOLEAN]
    /\ agent = None
    /\ heap = <<>>
    /\ runs = <<>>
    /\ wf = IdleWorkflow
    /\ pc = "idle"
    /\ InitExecutor
    /\ InitNoCall

NextTools == ToolCall

SpecTools == InitTools /\ [][NextTools]_vars


\* One execution of an agent block, for every provider, environment and
\* tool configuration, against a provider that may answer anything.
InitAgent ==
    /\ InitRL
    /\ startup = NotStarted
    /\ workflow_data = None
    /\ startup_warnings = <<>>
    /\ served = NotServed
    /\ fs \in [nodes : {OutsideNodes}, workspace_set : BOOLEAN]
    /\ agent \in [provider : Providers, api_key : BOOLEAN, command_enabled : BOOLEAN,
                  tools_config : ToolConfigs, tool_registry : {<<>>}, pc : {"start"},
                  iteration : {0}, sent : {0}, response : {NoReply}, commands : {0},
                  messages : {<<>>}, output : {"none"}]
    /\ heap = <<>>
    /\ runs = <<>>
    /\ wf = IdleWorkflow
    /\ pc = "idle"
    /\ InitExecutor
    /\ InitNoCall

NextAgent ==
    \/ AgentStart
    \/ AgentIteration
    \/ GoogleIteration
    \/ AgentExhausted
    \/ AgentFault

SpecAgent == InitAgent /\ [][NextAgent]_vars


\* MaxRequests requests to /execute of a server that has loaded its
\* document, one after the other or interleaved between blocks.
InitRequests ==
    /\ InitRL
    /\ startup \in {[file |-> "plain", has_api_key |-> TRUE, workflow_vars |-> v] :
                        v \in EnvironmentVariables}
    /\ workflow_data \in {RequestDocument(data) : data \in RequestData}
    /\ startup_warnings = <<>>
    /\ served = NotServed
    /\ fs = None
    /\ agent = None
    /\ heap = <<>>
    /\ runs = [r \in RequestIds |-> NoRun]
    /\ wf = IdleWorkflow
    /\ pc = "idle"
    /\ InitExecutor
    /\ InitNoCall

NextRequests ==
    \E r \in RequestIds :
        \/ ExecuteStart(r)
        \/ ExecuteStep(r)
        \/ ExecuteReturn(r)

SpecRequests == InitRequests /\ [][NextRequests]_vars

(***************************************************************************)
(* handlers/function.py: what the code does to the objects it is given     *)
(***************************************************************************)
\* The code of a function block by its statements, where RunCode has it by
\* its text:
\*   set      context[k1] = value            (k2 empty)
\*            context[k1][k2] = value
\*   return   __return__ = value
\*   local    k1 = value
\*   raise    raise k1(value)
\*   garbage  a line that does not compile:  )(
\* The code names no block and no variable between < and >, so the
\* resolution of the inputs (executor.py:184) and _resolve_code_references
\* (line 64) leave it as it is.
Statement(op, k1, k2, value) == [op |-> op, k1 |-> k1, k2 |-> k2, value |-> value]

Statements ==
    {Statement("set", k, <<>>, v) : k \in {<<"v", "a", "r", "i", "a", "b", "l", "e">>, <<"p", "r", "e", "v">>}, v \in {PyInt(3), PyDict(<<>>)}}
    \cup {Statement("set", <<"v", "a", "r", "i", "a", "b", "l", "e">>, <<"s", "e", "c", "r", "e", "t">>, PyInt(9)),
          Statement("set", <<"p", "r", "e", "v">>, <<"v">>, PyInt(9)),
          Statement("set", <<"P", "r", "e", "v">>, <<"v">>, PyInt(9)),
          Statement("set", <<"s", "t", "a", "r", "t">>, <<"x">>, PyInt(9)),
          Statement("return", <<>>, <<>>, PyInt(5)),
          Statement("local", <<"y">>, <<>>, PyInt(1)),
          Statement("raise", <<"V", "a", "l", "u", "e", "E", "r", "r", "o", "r">>, <<>>, PyStr(<<"b", "o", "o", "m">>)),
          Statement("raise", <<"S", "y", "s", "t", "e", "m", "E", "x", "i", "t">>, <<>>, PyStr(<<"3">>)),
          Statement("garbage", <<>>, <<>>, PyNone)}

\* The longest code run
MaxStatements == 2

FunctionPrograms == UNION {[1..n -> Statements] : n \in 0..MaxStatements}

\* An exception: its class and str(e)
RaisedException(type, message) == [type |-> type, message |-> message]

NoException == RaisedException(<<>>, <<>>)

\* The classes that `except Exception` catches
Exceptions == {<<"V", "a", "l", "u", "e", "E", "r", "r", "o", "r">>, <<"K", "e", "y", "E", "r", "r", "o", "r">>, <<"T", "y", "p", "e", "E", "r", "r", "o", "r">>, <<"S", "y", "n", "t", "a", "x", "E", "r", "r", "o", "r">>}

\* FunctionBlockHandler._build_context_dict: a new mapping from names to the
\* objects of the context themselves, the outputs written last
_build_context_dict(ctx) ==
    [k \in {<<"s", "t", "a", "r", "t">>, <<"v", "a", "r", "i", "a", "b", "l", "e">>} \cup DOMAIN ctx.block_outputs |->
        IF k \in DOMAIN ctx.block_outputs THEN ctx.block_outputs[k]
        ELSE IF k = <<"s", "t", "a", "r", "t">> THEN ctx.inputs
        ELSE ctx.workflow_variables]

\* exec of one statement in exec_globals (the mapping `context`) and
\* exec_locals, on the objects allocated so far
ExecStatement(st, env) ==
    CASE st.op = "set" /\ st.k2 = <<>> ->
            [env EXCEPT !.objects = Append(@, st.value),
                        !.context = Put(@, st.k1, Len(env.objects) + 1)]
      [] st.op = "set" /\ st.k2 # <<>> ->
            IF st.k1 \notin DOMAIN env.context
            THEN [env EXCEPT !.raised = RaisedException(<<"K", "e", "y", "E", "r", "r", "o", "r">>, <<"'">> \o st.k1 \o <<"'">>)]
            ELSE IF env.objects[env.context[st.k1]].t # "dict"
            THEN [env EXCEPT !.raised = RaisedException(<<"T", "y", "p", "e", "E", "r", "r", "o", "r">>, <<"'", "i", "n", "t", "'", " ", "o", "b", "j", "e", "c", "t", " ", "d", "o", "e", "s", " ", "n", "o", "t", " ", "s", "u", "p", "p", "o", "r", "t", " ", "i", "t", "e", "m", " ", "a", "s", "s", "i", "g", "n", "m", "e", "n", "t">>)]
            ELSE [env EXCEPT !.objects[env.context[st.k1]] = DictSet(@, st.k2, st.value)]
      [] st.op = "return" ->
            [env EXCEPT !.locals = DictSet(@, <<"_", "_", "r", "e", "t", "u", "r", "n", "_", "_">>, st.value)]
      [] st.op = "local" ->
            [env EXCEPT !.locals = DictSet(@, st.k1, st.value)]
      [] OTHER ->
            [env EXCEPT !.raised = RaisedException(st.k1, st.value.s)]

\* exec(compiled, exec_globals, exec_locals), line 85: the statements from
\* the i-th on, up to the first that raises
RECURSIVE Exec(_, _, _)
Exec(code, i, env) ==
    IF i > Len(code) \/ env.raised # NoException THEN env
    ELSE Exec(code, i + 1, ExecStatement(code[i], env))

\* compile(code, '<name>', 'exec'), line 84: the SyntaxError of the first
\* line that does not compile
Compile(code, name) ==
    LET garbage == {i \in DOMAIN code : code[i].op = "garbage"}
        line == CHOOSE i \in garbage : \A j \in garbage : i <= j
    IN  IF garbage = {} THEN NoException
        ELSE RaisedException(<<"S", "y", "n", "t", "a", "x", "E", "r", "r", "o", "r">>,
                    <<"u", "n", "m", "a", "t", "c", "h", "e", "d", " ", "'", ")", "'", " ", "(", "<">> \o name \o <<">", ",", " ", "l", "i", "n", "e", " ">> \o <<Digits[line + 1]>> \o <<")">>)

\* The output of line 91: str(e), the last line of the traceback, the code
\* (kept as its statements)
ErrorOutput(e, code) ==
    PyDict(<<Entry(<<"e", "r", "r", "o", "r">>, PyStr(e.message)),
             Entry(<<"t", "r", "a", "c", "e", "b", "a", "c", "k">>, PyStr(e.type \o <<":", " ">> \o e.message)),
             Entry(<<"r", "e", "s", "o", "l", "v", "e", "d", "_", "c", "o", "d", "e">>, PyStr(code))>>)

ExecutedOutput == PyDict(<<Entry(<<"e", "x", "e", "c", "u", "t", "e", "d">>, PyBool(TRUE))>>)

\* FunctionBlockHandler.execute, lines 68-91, on the objects allocated so
\* far: the objects it leaves and the output it returns, or the exception
\* that leaves it
ExecuteCode(ctx, name, code, objects) ==
    LET env == Exec(code, 1, [objects |-> objects, context |-> _build_context_dict(ctx),
                              locals |-> PyDict(<<>>), raised |-> NoException])
    IN  IF Compile(code, name) # NoException
        THEN [propagates |-> FALSE, exception |-> NoException, objects |-> objects,
              output |-> ErrorOutput(Compile(code, name), code)]
        ELSE IF env.raised = NoException
        THEN [propagates |-> FALSE, exception |-> NoException, objects |-> env.objects,
              output |-> IF HasKey(env.locals, <<"_", "_", "r", "e", "t", "u", "r", "n", "_", "_">>)
                         THEN DictGet(env.locals, <<"_", "_", "r", "e", "t", "u", "r", "n", "_", "_">>)
                         ELSE ExecutedOutput]
        ELSE IF env.raised.type \in Exceptions
        THEN [propagates |-> FALSE, exception |-> NoException, objects |-> env.objects,
              output |-> ErrorOutput(env.raised, code)]
        ELSE [propagates |-> TRUE, exception |-> env.raised, objects |-> env.objects,
              output |-> PyNone]

\* The context of a call, its mappings by identity: the request {x: 1}, the
\* variables {secret: 7} and, under both its keys, the output {v: 1} of an
\* earlier block named Prev
FunctionObjects == <<PyDict(<<Entry(<<"x">>, PyInt(1))>>),
                     PyDict(<<Entry(<<"s", "e", "c", "r", "e", "t">>, PyInt(7))>>),
                     PyDict(<<Entry(<<"v">>, PyInt(1))>>)>>

FunctionContexts ==
    {[inputs |-> 1, workflow_variables |-> 2, block_outputs |-> outputs] :
        outputs \in {EmptyDict, [k \in {<<"P", "r", "e", "v">>, <<"p", "r", "e", "v">>} |-> 3]}}

FunctionCalls ==
    {[fn |-> "function", name |-> <<"f", "n">>, code |-> code, ctx |-> ctx, objects |-> FunctionObjects] :
        code \in FunctionPrograms, ctx \in FunctionContexts}

\* _execute_block lines 202 and 219-221 on a function block: the handler,
\* then its output stored under the block's two keys.  SystemExit is not an
\* Exception: line 205 does not catch it and it leaves run().
FunctionCall ==
    /\ args.fn = "function"
    /\ ~ret.done
    /\ LET returned == ExecuteCode(args.ctx, args.name, args.code, heap)
           stored == Len(returned.objects) + 1
       IN  IF returned.propagates
           THEN /\ heap' = returned.objects
                /\ ret' = [done |-> TRUE, propagates |-> TRUE, exception |-> returned.exception,
                           value |-> PyNone, ctx |-> args.ctx]
           ELSE /\ heap' = Append(returned.objects, returned.output)
                /\ ret' = [done |-> TRUE, propagates |-> FALSE, exception |-> NoException,
                           value |-> returned.output,
                           ctx |-> [args.ctx EXCEPT !.block_outputs =
                                       Put(Put(@, normalized(args.name), stored), args.name, stored)]]
    /\ UNCHANGED <<rlvars, exvars, args, srvvars, fs, agent, runs>>

\* One function block run on a context; no run in progress and the
\* middleware idle.
InitFunction ==
    /\ InitRL
    /\ startup = NotStarted
    /\ workflow_data = None
    /\ startup_warnings = <<>>
    /\ served = NotServed
    /\ fs = None
    /\ agent = None
    /\ runs = <<>>
    /\ wf = IdleWorkflow
    /\ pc = "idle"
    /\ InitExecutor
    /\ args \in FunctionCalls
    /\ heap = args.objects
    /\ ret = NoRet

NextFunction == FunctionCall

SpecFunction == InitFunction /\ [][NextFunction]_vars

(***************************************************************************)
(* Properties                                                              *)
(***************************************************************************)
NameOf(b) == BlockOf(b).name

\* The ids of the entries of hist.finished of the kinds in `hows`
FinishedIds(hows) == {hist.finished[i].id : i \in {j \in DOMAIN hist.finished :
                                                     hist.finished[j].how \in hows}}

Executed == FinishedIds({"leaf", "loop", "no_handler"})

\* How many times block b finished an execution of one of the kinds `hows`
Executions(b, hows) ==
    Cardinality({i \in DOMAIN hist.finished :
                    hist.finished[i].id = b /\ hist.finished[i].how \in hows})

LogsOf(b) == {i \in DOMAIN logs : logs[i].blockId = b}

RECURSIVE Sched(_, _)
Sched(S, ids) ==
    LET add == {b \in ids \ S :
                   \A i \in DOMAIN wf.edges :
                       (wf.edges[i].target = b /\ wf.edges[i].source \in ids)
                           => wf.edges[i].source \in S}
    IN  IF add = {} THEN S ELSE Sched(S \cup add, ids)

\* The blocks of `ids` that are neither on a cycle of edges within `ids` nor
\* reachable only through one
Schedulable(ids) == Sched({}, ids)

\* ---------------------------------------------------------------- C1
\* C1: per client, any RATE_LIMIT_REQUESTS + 1 consecutively admitted requests
\* span at least RATE_LIMIT_WINDOW seconds (so no window of that length,
\* open at its start, holds more than RATE_LIMIT_REQUESTS admissions); a
\* request is passed on only when fewer than RATE_LIMIT_REQUESTS admissions
\* are in the window, otherwise it is answered 429 with
\* 0 <= Retry-After <= RATE_LIMIT_WINDOW, and with Retry-After > 0 when the
\* oldest counted request is less than a second old (S6).
C1_RateLimit ==
    /\ \A c \in Clients :
          Len(recent[c]) = RATE_LIMIT_REQUESTS + 1
              => recent[c][RATE_LIMIT_REQUESTS + 1] - recent[c][1] >= WindowTicks
    /\ (resp.status = "call_next" /\ resp.path \notin {"/health", "/ready"})
          => resp.in_window < RATE_LIMIT_REQUESTS
    /\ resp.status = "429"
          => /\ resp.in_window = RATE_LIMIT_REQUESTS
             /\ resp.retry_after >= 0
             /\ resp.retry_after <= RATE_LIMIT_WINDOW
             /\ (resp.age < TicksPerSecond => resp.retry_after > 0)

\* The request after RATE_LIMIT_REQUESTS admissions within one second is rejected.
C1_Witness ==
    /\ resp.status = "429"
    /\ resp.age < TicksPerSecond
    /\ resp.retry_after > 0
    /\ Len(recent[resp.client]) >= RATE_LIMIT_REQUESTS

\* ---------------------------------------------------------------- C2
\* C2 as stated: after a run every executed block (leaf, loop container, loop
\* child, unknown type) has exactly one log record, with endedAt >= startedAt.
C2_OneLogPerBlock ==
    pc = "done" =>
        \A b \in Executed :
            /\ Cardinality(LogsOf(b)) = 1
            /\ \A i \in LogsOf(b) : logs[i].endedAt >= logs[i].startedAt

\* C2 amended: every execution of a leaf block for which a handler exists
\* appends exactly one log record, with endedAt >= startedAt (a loop child
\* has one record per iteration that ran it); loop containers and blocks
\* without a handler get no record.
C2_OneLogPerHandledExecution ==
    /\ \A b \in Ids : Cardinality(LogsOf(b)) = Executions(b, {"leaf"})
    /\ \A i \in DOMAIN logs :
          /\ logs[i].endedAt >= logs[i].startedAt
          /\ _get_handler(logs[i].blockType) # None
          /\ logs[i].blockType = BlockOf(logs[i].blockId).type

\* A finished run with a loop child logged twice and executed blocks never logged.
C2_Witness ==
    /\ pc = "done"
    /\ \E b \in Executed : Cardinality(LogsOf(b)) >= 2
    /\ \E b \in FinishedIds({"loop"}) : LogsOf(b) = {}
    /\ \E b \in FinishedIds({"no_handler"}) : LogsOf(b) = {}
    /\ \E i \in DOMAIN logs : logs[i].endedAt > logs[i].startedAt

\* ---------------------------------------------------------------- C3
\* C3 as stated: after a run the keys of ctx.blockOutputs are exactly the raw
\* and normalized names of all executed blocks.
C3_KeysOfExecuted ==
    pc = "done" =>
        DOMAIN block_outputs = UNION {{NameOf(b), normalized(NameOf(b))} : b \in Executed}

\* C3 amended: the keys of ctx.blockOutputs are exactly the raw and
\* normalized names of the executed blocks that a handler accepted and of the
\* loop containers the loop driver ran; an executed block that no handler
\* accepts stores nothing.
C3_KeysOfStored ==
    DOMAIN block_outputs =
        UNION {{NameOf(b), normalized(NameOf(b))} : b \in FinishedIds({"leaf", "loop"})}

\* A finished run in which a block without a handler left no key, and another
\* block left a raw and a different normalized key.
C3_Witness ==
    /\ pc = "done"
    /\ \E b \in FinishedIds({"no_handler"}) : NameOf(b) \notin DOMAIN block_outputs
    /\ \E b \in FinishedIds({"leaf"}) :
          /\ NameOf(b) # normalized(NameOf(b))
          /\ {NameOf(b), normalized(NameOf(b))} \subseteq DOMAIN block_outputs

\* ---------------------------------------------------------------- C4
\* The iteration counter of every LoopState, its records and the results of
\* the running loop stay within MAX_LOOP_ITERATIONS.
C4_Bound ==
    /\ \A l \in DOMAIN loop_states :
          /\ loop_states[l].iteration <= MAX_LOOP_ITERATIONS
          /\ Len(loop_states[l].iteration_outputs) <= MAX_LOOP_ITERATIONS
          /\ Len(loop_states[l].iteration_outputs) = loop_states[l].iteration
    /\ Len(loop.all_results) <= MAX_LOOP_ITERATIONS

\* C4: in every LoopState the iteration counter is at most
\* MAX_LOOP_ITERATIONS, at most that many iteration outputs are recorded, and
\* the loop's results hold as many; the counter equals the number of records;
\* and, handler calls ending, every run with its loops comes to its end.
C4_LoopBounded == []C4_Bound /\ <>(pc = "done")

\* A forEach loop over more than MAX_LOOP_ITERATIONS items, hard-stopped.
C4_Witness ==
    /\ pc = "done"
    /\ \E l \in DOMAIN loop_states :
          /\ loop_states[l].loop_type = "forEach"
          /\ Len(loop_states[l].items) > MAX_LOOP_ITERATIONS
          /\ loop_states[l].iteration = MAX_LOOP_ITERATIONS

TopLevel == _get_top_level_blocks

Pos(seq, x) == CHOOSE i \in DOMAIN seq : seq[i] = x

\* The ids of the top-level blocks that finished, in order of finishing
FinishedOf(top) ==
    LET f == SelectSeq(hist.finished, LAMBDA h : h.id \in top)
    IN  [i \in DOMAIN f |-> f[i].id]

TopFinished == FinishedOf(TopLevel)

\* The edges that count for the top-level order
TopEdges == {i \in DOMAIN wf.edges : wf.edges[i].source \in TopLevel
                                     /\ wf.edges[i].target \in TopLevel}

\* The position in the order of the predecessor popped last (0: none), and
\* the index of its last edge to b: the moment b entered the ready queue
ReadyAt(top_edges, b) ==
    LET preds == {Pos(execution_order, wf.edges[i].source) :
                      i \in {j \in top_edges : wf.edges[j].target = b}}
    IN  IF preds = {} THEN 0 ELSE CHOOSE p \in preds : \A q \in preds : q <= p

ReadyEdge(top_edges, b) ==
    LET at == ReadyAt(top_edges, b)
        es == {i \in top_edges : /\ wf.edges[i].target = b
                                 /\ wf.edges[i].source = execution_order[at]}
    IN  IF at = 0 THEN 0 ELSE CHOOSE e \in es : \A f \in es : f <= e

\* C6: top-level blocks run one after the other in execution_order, which
\* holds top-level blocks only, each at most once; for every edge between
\* top-level blocks whose target is in the order, its source comes earlier
\* (so has finished before the target starts); and blocks are ordered by the
\* moment they entered the ready queue (FIFO).
C6_TopologicalFifo ==
    LET top == TopLevel
        top_edges == {i \in DOMAIN wf.edges : wf.edges[i].source \in top
                                              /\ wf.edges[i].target \in top}
        finished == FinishedOf(top)
    IN  /\ Range(execution_order) \subseteq top
        /\ \A i, j \in DOMAIN execution_order :
              execution_order[i] = execution_order[j] => i = j
        /\ \A e \in top_edges :
              wf.edges[e].target \in Range(execution_order)
                  => /\ wf.edges[e].source \in Range(execution_order)
                     /\ Pos(execution_order, wf.edges[e].source)
                           < Pos(execution_order, wf.edges[e].target)
        /\ \A j \in DOMAIN execution_order : \A i \in 1..(j - 1) :
              LET ri == ReadyAt(top_edges, execution_order[i])
                  rj == ReadyAt(top_edges, execution_order[j])
              IN  \/ ri < rj
                  \/ /\ ri = rj
                     /\ \/ ri = 0
                        \/ ReadyEdge(top_edges, execution_order[i])
                              < ReadyEdge(top_edges, execution_order[j])
        /\ pc \notin {"init", "idle"} =>
              /\ finished = SubSeq(execution_order, 1, Len(finished))
              /\ Len(finished) = IF pc = "done" THEN Len(execution_order) ELSE idx - 1
              /\ pc = "attempt" => (IF blk.caller = "run" THEN blk.id ELSE loop.id)
                                       = execution_order[idx]
              /\ pc \in {"loop_check", "loop_body"} => loop.id = execution_order[idx]

\* A finished run of three top-level blocks, two of which were made ready by
\* the same predecessor.
C6_Witness ==
    /\ pc = "done"
    /\ Len(execution_order) = 3
    /\ Len(TopFinished) = 3
    /\ \E i, j \in DOMAIN execution_order :
          /\ i < j
          /\ ReadyAt(TopEdges, execution_order[i]) > 0
          /\ ReadyAt(TopEdges, execution_order[i]) = ReadyAt(TopEdges, execution_order[j])

\* ---------------------------------------------------------------- C7
TransientMessages == {MsgTimeout, MsgConnection, MsgRateLimit, Msg429, Msg503}

\* C7: one execution of a leaf block invokes the handler at most 3 times; the
\* attempt after attempt k follows an exception with a transient message and
\* a sleep of 2^k seconds; an execution whose last attempt raised ends with
\* output {error, retries: n}, n the index of that attempt, and that attempt
\* raised a non-transient message or was the third.
C7_Retry ==
    blk.phase # "idle" =>
        /\ blk.invocations <= 3
        /\ Len(blk.sleeps) <= 2
        /\ \A k \in DOMAIN blk.sleeps :
              /\ blk.answers[k] \in TransientMessages
              /\ blk.sleeps[k] = 2 ^ (k - 1)
        /\ blk.phase = "running" =>
              /\ blk.invocations = Len(blk.sleeps)
              /\ blk.attempt = blk.invocations
              /\ Len(blk.answers) = blk.invocations
        /\ (blk.phase = "returned" /\ blk.handler # None) =>
              /\ blk.invocations = Len(blk.sleeps) + 1
              /\ blk.success = (Len(blk.answers) < blk.invocations)
        /\ (blk.phase = "returned" /\ blk.invocations > 0
                /\ Len(blk.answers) = blk.invocations) =>
              /\ blk.output = [error |-> blk.answers[blk.invocations],
                               retries |-> blk.invocations - 1]
              /\ \/ blk.answers[blk.invocations] \notin TransientMessages
                 \/ blk.invocations = 3

\* Three transient failures with sleeps of 1 s and 2 s between them.
C7_Witness ==
    /\ blk.phase = "returned"
    /\ blk.sleeps = <<1, 2>>
    /\ ~blk.success
    /\ blk.output.retries = 2

\* ---------------------------------------------------------------- C8
\* C8 (S4): an API block whose target answers 503, 503, 200 is retried twice
\* with sleeps of 1 s and 2 s, its output is the 200 response and its log
\* record has success = true.
C8_ApiRetried ==
    (blk.phase = "returned" /\ blk.handler = "api"
        /\ wf.env.server = <<"503", "503", "200">>) =>
        /\ blk.sleeps = <<1, 2>>
        /\ blk.invocations = 3
        /\ blk.output = ApiOutput("200")
        /\ logs[Len(logs)].success

\* ---------------------------------------------------------------- C9
\* C9: an execution whose last handler attempt raised ends with output
\* {error, retries: n}, logged with success = false; the run is never
\* aborted: when it ends every scheduled top-level block has been executed,
\* every loop iteration ran every scheduled child, and the result has
\* success = true, error = null.
C9_FailureDoesNotAbort ==
    /\ pc \in {"init", "run", "attempt", "loop_check", "loop_body", "done"}
    /\ (blk.phase = "returned" /\ blk.invocations > 0
            /\ Len(blk.answers) = blk.invocations) =>
          /\ blk.output = [error |-> blk.answers[blk.invocations],
                           retries |-> blk.invocations - 1]
          /\ Len(logs) > 0
          /\ logs[Len(logs)].blockId = blk.id
          /\ logs[Len(logs)].output = blk.output
          /\ ~logs[Len(logs)].success
    /\ \A l \in DOMAIN loop_states :
          LET names == {NameOf(c) : c \in Schedulable(loop_children(l))}
          IN  \A i \in DOMAIN loop_states[l].iteration_outputs :
                  DOMAIN loop_states[l].iteration_outputs[i] = names
    /\ pc = "done" =>
          /\ result.success
          /\ result.error = None
          /\ result.logs = logs
          /\ TopFinished = execution_order

\* A finished run in which a block failed on all three attempts and a block
\* scheduled after it succeeded.
C9_Witness ==
    /\ pc = "done"
    /\ \E i, j \in DOMAIN logs :
          /\ i < j
          /\ ~logs[i].success
          /\ logs[i].output.retries = 2
          /\ logs[j].success

\* ---------------------------------------------------------------- C10
\* C10: a leaf block of a type no handler accepts (here "mystery", and a loop
\* container met as a loop child) returns {error: "No handler for block
\* type: T"} without any handler invocation, and only such blocks do; the
\* blocks scheduled after it are executed.
C10_NoHandler ==
    /\ blk.phase = "returned" =>
          IF BlockOf(blk.id).type \in {"mystery", "loop", "loop_block"}
          THEN /\ blk.invocations = 0
               /\ blk.handler = None
               /\ blk.output = [error |-> <<"No handler for block type: ", BlockOf(blk.id).type>>]
               /\ [id |-> blk.id, how |-> "no_handler"] \in Range(hist.finished)
               /\ \A i \in DOMAIN logs : logs[i].blockId # blk.id
          ELSE /\ blk.invocations > 0
               /\ blk.handler # None
    /\ \A i \in DOMAIN hist.finished :
          hist.finished[i].how = "no_handler"
              => BlockOf(hist.finished[i].id).type \in {"mystery", "loop", "loop_block"}
    /\ pc = "done" => TopFinished = execution_order
    /\ (pc = "loop_body" /\ loop.cidx > Len(loop.child_order)) =>
          DOMAIN loop.iteration_results = {NameOf(c) : c \in Range(loop.child_order)}

\* A finished run in which a block without a handler was followed by an
\* executed block.
C10_Witness ==
    /\ pc = "done"
    /\ \E i, j \in DOMAIN hist.finished :
          /\ i < j
          /\ hist.finished[i].how = "no_handler"
          /\ BlockOf(hist.finished[i].id).type = "mystery"
          /\ hist.finished[j].how = "leaf"

\* ---------------------------------------------------------------- C11
\* C11 (nested loops): when a scheduled child of a loop that ran an
\* iteration is itself a loop container, the loop driver ran it: it has a
\* LoopState, and its entry in every iteration record of the outer loop is a
\* loop output {results, totalIterations, status}.
C11_NestedLoopsRun ==
    pc = "done" =>
        \A o \in DOMAIN loop_states :
            \A b \in Schedulable(loop_children(o)) :
                (BlockOf(b).type \in LoopContainerTypes /\ loop_states[o].iteration > 0) =>
                    /\ b \in DOMAIN loop_states
                    /\ \A i \in DOMAIN loop_states[o].iteration_outputs :
                          DOMAIN loop_states[o].iteration_outputs[i][NameOf(b)]
                              = {"results", "totalIterations", "status"}

C14_DoWhileRunsOnce ==
    \A l \in FinishedIds({"loop"}) :
        loop_states[l].loop_type = "doWhile" => loop_states[l].iteration >= 1

\* ---------------------------------------------------------------- C15
\* The executions of the children of the running (or last run) loop, in
\* order of completion
ChildCompletions ==
    LET children == loop_children(loop.id)
    IN  SelectSeq(hist.finished, LAMBDA h : h.id \in children)

\* C15: blocks execute one at a time: a handler call is in flight only for
\* the one block the caller is waiting for; the intervals [startedAt,
\* endedAt] of the log records do not overlap and follow each other in log
\* order, which is the order of completion; the children of a loop complete
\* in child order, iteration after iteration.
C15_OneAtATime ==
    /\ (pc = "attempt") = (blk.phase = "running")
    /\ pc = "attempt" =>
          /\ blk.id = IF blk.caller = "run" THEN execution_order[idx]
                                            ELSE loop.child_order[loop.cidx]
          /\ \A i \in DOMAIN logs : logs[i].endedAt <= blk.start_time
    /\ \A i \in DOMAIN logs : \A j \in DOMAIN logs :
          i < j => logs[i].endedAt <= logs[j].startedAt
    /\ LET leaf == SelectSeq(hist.finished, LAMBDA h : h.how = "leaf")
       IN  /\ Len(leaf) = Len(logs)
           /\ \A i \in DOMAIN logs : logs[i].blockId = leaf[i].id
    /\ LET m == Len(loop.child_order)
           done == ChildCompletions
       IN  /\ m = 0 => done = <<>>
           /\ m > 0 => \A k \in DOMAIN done : done[k].id = loop.child_order[((k - 1) % m) + 1]
           /\ m > 0 /\ loop.id \in DOMAIN loop_states /\ pc = "loop_body" =>
                 Len(done) = m * loop_states[loop.id].iteration + (loop.cidx - 1)

\* A finished run whose loop ran two children in two iterations.
C15_Witness ==
    /\ pc = "done"
    /\ Len(loop.child_order) = 2
    /\ Len(ChildCompletions) >= 4
    /\ Len(logs) >= 4
    /\ logs[1].endedAt < logs[Len(logs)].startedAt

\* ---------------------------------------------------------------- C16
\* The positions in execution_order of the response / output blocks
ResponsePositions ==
    {i \in DOMAIN execution_order :
        BlockOf(execution_order[i]).type \in {"response", "output"}}

\* C16: the result of a run is {success: true, output, error: null, logs};
\* output is the output of the top-level response / output block executed
\* last, whatever was executed after it, and null when there was none.
C16_FinalOutput ==
    pc = "done" =>
        /\ DOMAIN result = {"success", "output", "error", "logs"}
        /\ result.success
        /\ result.error = None
        /\ result.logs = logs
        /\ IF ResponsePositions = {}
           THEN result.output = NoOutput
           ELSE LET last == CHOOSE i \in ResponsePositions : \A j \in ResponsePositions : j <= i
                    b == execution_order[last]
                IN  /\ \E k \in DOMAIN logs : logs[k].blockId = b /\ logs[k].output = result.output
                    /\ result.output = ResponseOutput(b)

\* A finished run with two top-level response blocks and another block after them.
C16_Witness ==
    /\ pc = "done"
    /\ Cardinality(ResponsePositions) = 2
    /\ 3 \in DOMAIN execution_order
    /\ 3 \notin ResponsePositions
    /\ result.output = ResponseOutput(execution_order[2])

\* C20: resolving a string that is exactly <X.y> after trimming, where block
\* X's output is {y: v}, returns v itself for every kind of value; the same
\* reference embedded in a longer string is replaced by the rendering of v
\* (null, True/False, JSON for a mapping or a sequence, decimal text for a
\* number) and the text around it is kept.
C20_RoundTrip ==
    (ret.done /\ args.fn = "resolve") =>
        LET c == args.case
        IN  /\ ret.value.t = "dict"
            /\ DictGet(ret.value, <<"e", "x", "a", "c", "t">>) = c.r.v
            /\ DictGet(ret.value, <<"e", "m", "b", "e", "d", "d", "e", "d">>) = PyStr(Join(c.pieces, c.r.text))

C20_Witness ==
    /\ ret.done
    /\ args.fn = "resolve"
    /\ args.case.x = <<"M", "y", "_", "B", "l", "o", "c", "k">>
    /\ DictGet(args.value, <<"e", "x", "a", "c", "t">>) = PyStr(<<" ", " ", "<", "M", "y", "_", "B", "l", "o", "c", "k", "[", "\"", "y", "\"", "]", ">", " ">>)
    /\ DictGet(args.value, <<"e", "m", "b", "e", "d", "d", "e", "d">>) = PyStr(<<"a", " ", "<", "M", "y", "_", "B", "l", "o", "c", "k", "[", "\"", "y", "\"", "]", ">", " ", "b">>)
    /\ args.case.r.v.t = "dict"
    /\ DictGet(ret.value, <<"e", "x", "a", "c", "t">>) = args.case.r.v
    /\ DictGet(ret.value, <<"e", "m", "b", "e", "d", "d", "e", "d">>) = PyStr(<<"a", " ", "{", "\"", "k", "\"", ":", " ", "t", "r", "u", "e", ",", " ", "\"", "n", "\"", ":", " ", "[", "2", "]", "}", " ", "b">>)

\* Whether a route's condition is truthy for the request {x: x}.
RouteHolds(case, x) ==
    CASE case.kind = "gt" -> x > case.bound
      [] case.kind = "always" -> TRUE
      [] OTHER -> FALSE

RouteIndexNames == <<<<"r", "o", "u", "t", "e", "_", "0">>, <<"r", "o", "u", "t", "e", "_", "1">>, <<"r", "o", "u", "t", "e", "_", "2">>>>

\* The output the routes of a call are to give: the first route that holds,
\* counted from 0, or the default.
RouterExpectation(rs, x, out) ==
    LET holding == {i \in DOMAIN rs : RouteHolds(rs[i], x)}
        first == CHOOSE i \in holding : \A j \in holding : i <= j
    IN  IF holding = {}
        THEN /\ DictGet(out, <<"r", "e", "s", "u", "l", "t">>) = PyBool(FALSE)
             /\ DictGet(out, <<"b", "r", "a", "n", "c", "h">>) = PyStr(<<"d", "e", "f", "a", "u", "l", "t">>)
             /\ \E i \in DOMAIN out.kids : out.kids[i] = Entry(<<"m", "a", "t", "c", "h", "e", "d", "R", "o", "u", "t", "e">>, PyNone)
        ELSE /\ DictGet(out, <<"r", "e", "s", "u", "l", "t">>) = PyBool(TRUE)
             /\ DictGet(out, <<"b", "r", "a", "n", "c", "h">>) =
                    PyStr(IF rs[first].name # <<>> THEN rs[first].name ELSE RouteIndexNames[first])
             /\ DictGet(out, <<"m", "a", "t", "c", "h", "e", "d", "R", "o", "u", "t", "e">>) = PyInt(first - 1)

\* C17 as stated: for a router block given a routes sequence, the output
\* names the first route whose condition is truthy (result true, branch the
\* route's name or route_i, matchedRoute i), and with no truthy route it is
\* {result: false, branch: "default", matchedRoute: null}.
C17_FirstRouteWins ==
    (ret.done /\ args.fn = "execute" /\ args.case.shape = "routes") =>
        RouterExpectation(args.case.routes, args.case.x, ret.value)

\* C17, amended: the same for a routes sequence that is not empty; an empty
\* sequence is taken as no routes at all and the block passes through with
\* {result: true, branch: "default"} and no matchedRoute.
C17_FirstRouteWinsNonEmpty ==
    (ret.done /\ args.fn = "execute" /\ args.case.shape = "routes") =>
        IF args.case.routes # <<>>
        THEN RouterExpectation(args.case.routes, args.case.x, ret.value)
        ELSE ret.value = PyDict(<<Entry(<<"r", "e", "s", "u", "l", "t">>, PyBool(TRUE)),
                                  Entry(<<"b", "r", "a", "n", "c", "h">>, PyStr(<<"d", "e", "f", "a", "u", "l", "t">>))>>)

\* Scenario S2 with x = 5: "big" fails, "pos" is chosen with matchedRoute 1.
C17_Witness ==
    /\ ret.done
    /\ args.fn = "execute"
    /\ args.ctx.inputs = PyDict(<<Entry(<<"x">>, PyInt(5)), Entry(<<"f">>, PyNone)>>)
    /\ args.inputs =
          PyDict(<<Entry(<<"r", "o", "u", "t", "e", "s">>,
                         PyList(<<PyDict(<<Entry(<<"c", "o", "n", "d", "i", "t", "i", "o", "n">>, PyStr(<<"<", "s", "t", "a", "r", "t", ".", "x", ">", " ", ">", " ", "1", "0">>)),
                                           Entry(<<"n", "a", "m", "e">>, PyStr(<<"b", "i", "g">>))>>),
                                  PyDict(<<Entry(<<"c", "o", "n", "d", "i", "t", "i", "o", "n">>, PyStr(<<"<", "s", "t", "a", "r", "t", ".", "x", ">", " ", ">", " ", "0">>)),
                                           Entry(<<"n", "a", "m", "e">>, PyStr(<<"p", "o", "s">>))>>)>>))>>)
    /\ DictGet(ret.value, <<"b", "r", "a", "n", "c", "h">>) = PyStr(<<"p", "o", "s">>)
    /\ DictGet(ret.value, <<"m", "a", "t", "c", "h", "e", "d", "R", "o", "u", "t", "e">>) = PyInt(1)
    /\ DictGet(ret.value, <<"r", "e", "s", "u", "l", "t">>) = PyBool(TRUE)

\* The values the truthy rule makes false
FalsyValues == {PyNone, PyBool(FALSE), PyInt(0), PyStr(<<>>), PyList(<<>>), PyDict(<<>>)}

SingleBranches == {PyStr(<<"t", "r", "u", "e">>), PyStr(<<"f", "a", "l", "s", "e">>)}

\* C18: a condition block with a single condition input returns a branch
\* in {"true", "false"}, "true" exactly when result is true; a condition that
\* is, or resolves through a reference to, a value that is no string is
\* coerced by the truthy rule, so null, the empty string, zero and false
\* give result false and branch "false".
C18_SingleCondition ==
    (ret.done /\ args.fn = "execute" /\ args.case.shape = "condition") =>
        /\ DictGet(ret.value, <<"b", "r", "a", "n", "c", "h">>) \in SingleBranches
        /\ DictGet(ret.value, <<"b", "r", "a", "n", "c", "h">>) = PyStr(<<"t", "r", "u", "e">>)
              <=> DictGet(ret.value, <<"r", "e", "s", "u", "l", "t">>) = PyBool(TRUE)
        /\ args.case.kind \in {"literal", "reference"} =>
              DictGet(ret.value, <<"r", "e", "s", "u", "l", "t">>) = PyBool(args.case.f \notin FalsyValues)

FailingSingleKinds == {"call", "name", "operator", "identity", "syntax"}

FailingLoopKinds == {"unsafe", "unsafe_name", "unsafe_operator", "unparsable"}

\* C19: an expression that fails to parse or uses a disallowed name,
\* operator or call never raises out of the evaluator; in a condition block
\* it makes the condition false, and in a while or doWhile loop the decision
\* to go on falls back to iteration < maxIterations.
C19_FailureFallsBack ==
    /\ (ret.done /\ args.fn = "execute" /\ args.case.shape = "condition"
            /\ args.case.kind \in FailingSingleKinds) =>
            /\ DictGet(ret.value, <<"r", "e", "s", "u", "l", "t">>) = PyBool(FALSE)
            /\ DictGet(ret.value, <<"b", "r", "a", "n", "c", "h">>) = PyStr(<<"f", "a", "l", "s", "e">>)
    /\ (ret.done /\ args.fn = "_should_continue_loop"
            /\ args.inputs.condition.kind \in FailingLoopKinds) =>
            LET maxIterations == Min(args.inputs.iterations, MAX_LOOP_ITERATIONS)
            IN  ret.value = PyBool(Min(args.iteration, maxIterations) < maxIterations)

\* C13 (scenario S3): inside a forEach loop a reference <_loop.item> in the
\* code of a function child is replaced by the item of the current
\* iteration, so for the items 10, 20, 30 and the code
\* __return__ = {"v": <_loop.item> * 2} the loop's results carry v = 20, 40,
\* 60 in iteration order and totalIterations is the number of items.
C13_LoopItemResolved ==
    pc = "done" =>
        \A l \in DOMAIN loop_states : \A c \in loop_children(l) :
            (/\ BlockOf(l).inputs.loopType = "forEach"
             /\ BlockOf(c).type = "function"
             /\ BlockOf(c).inputs.code = ItemTimesTwo) =>
                LET out == block_outputs[NameOf(l)]
                    items == BlockOf(l).inputs.forEachItems
                IN  /\ out.totalIterations = Len(items)
                    /\ Len(out.results) = Len(items)
                    /\ \A i \in DOMAIN items :
                          out.results[i][BlockOf(c).name] = [v |-> 2 * items[i]]

\* ---------------------------------------------------------------- C21
\* C21: in raw mode (explicit or by default) the output `data` of a response
\* block is the value its `data` input resolves to, whatever that value is
\* (S1: count = 3 gives data = 3); the output carries the full resolved
\* input mapping as `data` only when the block has no data input.
C21_RawData ==
    (args.fn = "response" /\ args.case.shape \in {"raw", "default", "headers"})
        => LET data == DictGet(ret.value, <<"d", "a", "t", "a">>)
           IN  IF args.case.form = "absent"
               THEN data = resolve(args.inputs, args.ctx)
               ELSE data = resolve(DataInput(args.case.form, args.case.v), args.ctx)

\* S1 itself: count = 3, data <variable.count>, raw mode: output.data = 3.
C21_Scenario ==
    /\ args.fn = "response"
    /\ args.case = [v |-> PyInt(3), form |-> "reference", shape |-> "raw"]
    /\ DictGet(ret.value, <<"d", "a", "t", "a">>) = PyInt(3)


\* C22: the answers of the endpoints follow the outcome of the startup
\* event.  When load_workflow could not load the file (missing, malformed,
\* unreadable, or not a JSON object), /health says degraded, /ready answers
\* 503 and an admitted /execute answers 500 without calling the engine.  When
\* it loaded a document, /ready answers 200 {ready: true} and an admitted
\* /execute calls the engine.
LoadFailed == startup.file \in {"missing", "malformed", "unreadable", "null"}

C22_Readiness ==
    (startup # NotStarted /\ served # NotServed /\ resp.status = "call_next") =>
        LET a == served.answer
        IN  IF LoadFailed
            THEN /\ served.path = "/health" => a.body.status = "degraded"
                 /\ served.path = "/ready" => a.code = "503"
                 /\ served.path = "/execute" => a.code = "500" /\ ~a.engine
            ELSE /\ served.path = "/ready" => a.code = "200" /\ a.body = [ready |-> TRUE]
                 /\ served.path = "/execute" => a.engine

\* The part of C22 about a failed load, alone.
C22_FailedLoad ==
    (startup # NotStarted /\ served # NotServed /\ resp.status = "call_next" /\ LoadFailed) =>
        LET a == served.answer
        IN  /\ served.path = "/health" => a.body.status = "degraded"
            /\ served.path = "/ready" => a.code = "503"
            /\ served.path = "/execute" => a.code = "500" /\ ~a.engine

\* The file holds {}: /health says workflow_loaded, /ready answers 503.
C22_EmptyDocument ==
    /\ startup # NotStarted
    /\ startup.file = "empty"
    /\ served # NotServed
    /\ served.path = "/ready"
    /\ served.answer.code = "503"
    /\ health.body.workflow_loaded

\* C23: a request for /health or /ready is never answered 413 or 429 and
\* never changes the limiter's record, whatever the client's history and
\* content-length; on every other path the endpoint runs only for a request
\* whose content-length is not above the maximum, that found fewer than
\* RATE_LIMIT_REQUESTS timestamps in the window, and that was recorded.
C23_State ==
    served # NotServed =>
        /\ served.path \in {"/health", "/ready"} =>
                resp.status = "call_next" /\ served.answer.code \notin {"413", "429"}
        /\ (served.path \notin {"/health", "/ready"} /\ served.answer.code \notin {"413", "429"}) =>
                /\ served.content_length # "too_large"
                /\ resp.in_window < RATE_LIMIT_REQUESTS
                /\ requests[served.client] # <<>>
                /\ requests[served.client][Len(requests[served.client])] = now

C23_Quota ==
    (requests' # requests \/ recent' # recent) =>
        served' # NotServed /\ served'.path \notin {"/health", "/ready"}

C23_Admission == []C23_State /\ [][C23_Quota]_vars

\* A health request of a client whose quota is used up, with a
\* content-length above the maximum, reached its endpoint.
C23_Witness ==
    /\ served # NotServed
    /\ served.path \in {"/health", "/ready"}
    /\ served.content_length = "too_large"
    /\ Len(requests[served.client]) = RATE_LIMIT_REQUESTS
    /\ served.answer.code \in {"200", "503"}

\* C30: at every time, a client is admitted exactly when fewer than
\* RATE_LIMIT_REQUESTS of its admitted requests lie within the last
\* RATE_LIMIT_WINDOW seconds; so a client answered 429 is admitted again
\* once its old requests have left the window, and a client idle for a full
\* window is admitted.
InWindow(c) == Cardinality({i \in DOMAIN recent[c] : recent[c][i] > now - WindowTicks})

C30_Expiry ==
    \A c \in Clients :
        (InWindow(c) < RATE_LIMIT_REQUESTS) <=> ENABLED AdmittedRequest(c, "/execute")

\* A client was answered 429, time has passed, and it would be admitted now.
C30_Witness ==
    /\ resp.status = "429"
    /\ Len(recent[resp.client]) >= RATE_LIMIT_REQUESTS
    /\ InWindow(resp.client) < RATE_LIMIT_REQUESTS
    /\ ENABLED AdmittedRequest(resp.client, "/execute")


\* C28: in every LoopState of the context, iteration <= max_iterations <=
\* MAX_LOOP_ITERATIONS, and a forEach loop has max_iterations = len(items),
\* for every items sequence and every iterations input.
C28_LoopBounds ==
    \A l \in DOMAIN loop_states :
        LET state == loop_states[l]
        IN  /\ state.iteration <= state.max_iterations
            /\ state.max_iterations <= MAX_LOOP_ITERATIONS
            /\ state.loop_type = "forEach" => state.max_iterations = Len(state.items)

\* The parts of C28 that do not bound max_iterations by MAX_LOOP_ITERATIONS.
C28_ForEachCount ==
    \A l \in DOMAIN loop_states :
        LET state == loop_states[l]
        IN  /\ state.iteration <= state.max_iterations
            /\ state.loop_type = "forEach" => state.max_iterations = Len(state.items)
            /\ state.loop_type # "forEach" => state.max_iterations <= MAX_LOOP_ITERATIONS

\* A forEach loop over MAX_LOOP_ITERATIONS + 1 items stopped by the hard stop.
C28_LongForEach ==
    \E l \in DOMAIN loop_states :
        /\ loop_states[l].loop_type = "forEach"
        /\ Len(loop_states[l].items) = MAX_LOOP_ITERATIONS + 1
        /\ loop_states[l].max_iterations = MAX_LOOP_ITERATIONS + 1
        /\ loop_states[l].iteration = MAX_LOOP_ITERATIONS
        /\ pc = "done"


\* ---------------------------------------------------------------- C27
\* The targets of the edges in E that leave a block of S
Successors(S, E) == {e.target : e \in {f \in E : f.source \in S}}

RECURSIVE Descendants(_, _)
\* S and every block reached from it along edges of E
Descendants(S, E) ==
    LET more == S \cup Successors(S, E)
    IN  IF more = S THEN S ELSE Descendants(more, E)

\* The blocks that reach themselves along at least one edge of E
OnCycle(ids, E) == {b \in ids : b \in Descendants(Successors({b}, E), E)}

\* The blocks reached from a block without predecessor along a path that
\* meets no block of a cycle
CycleFree(ids, E) ==
    LET cyc == OnCycle(ids, E)
    IN  Descendants({b \in ids : \A e \in E : e.target # b},
                    {e \in E : e.target \notin cyc})

\* The pairs (source, target) of the edges between top-level blocks
TopGraph(top) == {[source |-> wf.edges[i].source, target |-> wf.edges[i].target] :
                     i \in {j \in DOMAIN wf.edges : /\ wf.edges[j].source \in top
                                                    /\ wf.edges[j].target \in top}}

KeysOf(B) == UNION {{NameOf(b), normalized(NameOf(b))} : b \in B}

\* A finished run over a top-level cycle returned success: true; its
\* top-level blocks outside `skipped` were executed, each handled one leaving
\* its output under its name; the blocks of `skipped` were not executed and
\* left no log record, and no output is stored but those of executed blocks.
CycleRun(top, skipped) ==
    /\ result.success = TRUE
    /\ \A b \in top \ skipped :
          /\ b \in Executed
          /\ b \in FinishedIds({"leaf", "loop"}) => NameOf(b) \in DOMAIN block_outputs
    /\ \A b \in skipped :
          /\ b \notin Executed
          /\ LogsOf(b) = {}
    /\ DOMAIN block_outputs \subseteq KeysOf(Executed)

\* C27 as stated: when the top-level blocks contain a cycle the run ends
\* with success: true; the blocks on a cycle and the blocks reachable only
\* through one are never executed (no output, no log record); every other
\* top-level block is executed and its output kept.
C27_OnlyThroughCycle ==
    LET top == TopLevel
        E == TopGraph(top)
    IN  (pc = "done" /\ OnCycle(top, E) # {}) => CycleRun(top, top \ CycleFree(top, E))

\* C27: when the top-level blocks contain a cycle the run ends with success:
\* true; the blocks on a cycle and every block reachable from one are never
\* executed (no output, no log record); every other top-level block is
\* executed and its output kept.
C27_BehindCycle ==
    LET top == TopLevel
        E == TopGraph(top)
    IN  (pc = "done" /\ OnCycle(top, E) # {}) =>
            CycleRun(top, Descendants(OnCycle(top, E), E))

\* A finished run with a block on a cycle, a block behind the cycle that is
\* also the target of an executed block, and that executed block.
C27_Witness ==
    LET top == TopLevel
        E == TopGraph(top)
        cyc == OnCycle(top, E)
    IN  /\ pc = "done"
        /\ cyc # {}
        /\ \E b \in Descendants(cyc, E) \ cyc :
              /\ b \in CycleFree(top, E)
              /\ b \notin Executed
              /\ \E a \in Executed : [source |-> a, target |-> b] \in E


\* ---------------------------------------------------------------- C25
Outside(p) == ~IsPrefix(WORKSPACE_DIR, p)

\* C25 as stated: no call of a file tool, whatever its path, creates, writes
\* or deletes anything outside WORKSPACE_DIR; a call whose path resolves
\* outside the workspace returns {success: false, error: "Path escapes
\* sandbox..."} and leaves the filesystem unchanged.
C25_Sandbox ==
    (ret.done /\ fs.workspace_set) =>
        /\ \A p \in ret.changed : ~Outside(p)
        /\ ret.escapes => /\ ret.value = [success |-> FALSE, error |-> ErrEscapes]
                          /\ ret.changed = {}

\* C25: no call of a file tool, whatever its path, creates, writes or deletes
\* anything outside WORKSPACE_DIR; a call whose path resolves outside the
\* workspace returns success: false and changes nothing but, when it is
\* missing, the workspace directory itself; its error is "Path escapes
\* sandbox..." unless write_file or write_bytes rejected the content first
\* (too large, or not base64).
C25_SandboxRejects ==
    (ret.done /\ fs.workspace_set) =>
        /\ \A p \in ret.changed : ~Outside(p)
        /\ ret.escapes =>
              /\ ret.value.success = FALSE
              /\ ret.changed \subseteq {WORKSPACE_DIR}
              /\ \/ ret.value.error = ErrEscapes
                 \/ /\ args.fn \in {"write_file", "write_bytes"}
                    /\ args.size > MAX_FILE_SIZE
                    /\ ret.value.error = ErrTooLarge
                    /\ ret.changed = {}
                 \/ /\ args.fn = "write_bytes"
                    /\ ~args.decodes
                    /\ ret.value.error = ErrPadding
                    /\ ret.changed = {}

\* Scenario S5: write_file("../etc/passwd", "x") was refused, and a call
\* through a link of the workspace to /etc as well, /etc/passwd being as it was.
C25_Witness ==
    /\ ret.done
    /\ fs.workspace_set
    /\ args.fn = "write_file"
    /\ args.path \in {Rel(<<"..", "etc", "passwd">>), Rel(<<"flink">>)}
    /\ args.size = 1
    /\ ret.escapes
    /\ ret.value = [success |-> FALSE, error |-> ErrEscapes]
    /\ fs.nodes[<<"etc", "passwd">>] = FileNode(1, "old")
    /\ <<"ws", "deep", "new.txt">> \in DOMAIN fs.nodes


\* ---------------------------------------------------------------- C26
\* C26: when ENABLE_COMMAND_EXECUTION is not true, no tool call of an agent
\* block runs a command, whatever tools the block declares and whatever the
\* provider asks for.
C26_CommandsOptIn == ~agent.command_enabled => agent.commands = 0

\* The part of C26 about the tools the handler registers itself: without the
\* opt-in a block that declares no native tool execute_command runs no
\* command, and without WORKSPACE_DIR no block does.
C26_NotDeclared ==
    /\ (~agent.command_enabled
        /\ \A i \in DOMAIN agent.tools_config : agent.tools_config[i].name # "execute_command")
          => agent.commands = 0
    /\ ~fs.workspace_set => agent.commands = 0

\* WORKSPACE_DIR is set, ENABLE_COMMAND_EXECUTION is not, the block declares
\* the native tool execute_command, and a command has run.
C26_DeclaredRuns ==
    /\ fs.workspace_set
    /\ ~agent.command_enabled
    /\ agent.tools_config = <<[type |-> "native", name |-> "execute_command"]>>
    /\ "local_execute_command" \notin DOMAIN agent.tool_registry
    /\ agent.commands > 0

\* ---------------------------------------------------------------- C29
\* A request follows a reply only if the reply held a tool call and no
\* signal that the turn ended.
C29_Continues ==
    (agent'.sent > agent.sent /\ agent.sent > 0) =>
        (agent.response.tool_uses # <<>> /\ ~agent.response.stop)

\* C29: one execution of an agent block sends at most MAX_TOOL_ITERATIONS
\* requests to its provider, whichever provider it is, and sends none after
\* a reply without tool calls or with the signal that the turn ended.
C29_RequestBound ==
    [](agent.sent <= MAX_TOOL_ITERATIONS) /\ [][C29_Continues]_vars

\* The part of C29 that holds: Anthropic, the OpenAI-compatible providers
\* and Azure get at most MAX_TOOL_ITERATIONS requests, Google and Vertex at
\* most one more; no request follows a reply without tool calls or with the
\* stop signal.
C29_OneMoreForGoogle ==
    /\ [](agent.sent <= MAX_TOOL_ITERATIONS
                         + (IF agent.provider \in {"google", "vertex"} THEN 1 ELSE 0))
    /\ [][C29_Continues]_vars

\* A Google execution in which every reply held a function call has ended
\* after MAX_TOOL_ITERATIONS + 1 requests.
C29_GoogleExtraRequest ==
    /\ agent.provider = "google"
    /\ agent.pc = "done"
    /\ agent.output = "content"
    /\ agent.iteration = MAX_TOOL_ITERATIONS
    /\ agent.sent = MAX_TOOL_ITERATIONS + 1


\* ---------------------------------------------------------------- C24
RECURSIVE Alone(_, _, _)
\* The frame of a run of the document on `inputs` after its first k blocks,
\* no other run being there
Alone(document, inputs, k) ==
    IF k = 0
    THEN [ctx |-> Context(inputs, startup.workflow_vars, EmptyDict), logs |-> <<>>,
          final_output |-> PyNone]
    ELSE RunBlock(OrderedBlocks(document)[k], Alone(document, inputs, k - 1))

\* C24: at every moment of every interleaving, the workflow variables, block
\* outputs and logs of a run are what the run would hold at that point
\* running alone, no object of its context is held by another run, and the
\* result it returns is the result of running alone.
C24_Isolated ==
    \A r \in RequestIds :
        runs[r].state # "idle" =>
            /\ Frame(runs[r], heap) = Alone(workflow_data, runs[r].inputs, runs[r].position - 1)
            /\ runs[r].state = "done" =>
                  runs[r].result = RunResult(Alone(workflow_data, runs[r].inputs,
                                                   Len(OrderedBlocks(workflow_data))))
            /\ \A q \in RequestIds \ {r} :
                  runs[q].state # "idle" =>
                      {runs[r].variables, runs[r].outputs, runs[r].logs}
                          \cap {runs[q].variables, runs[q].outputs, runs[q].logs} = {}

\* Two requests with different inputs are running at once, each past its
\* variables block, one of them started after the other had set its variable.
C24_Witness ==
    \E r, q \in RequestIds :
        /\ r # q
        /\ runs[r].state = "running"
        /\ runs[q].state = "running"
        /\ runs[r].inputs # runs[q].inputs
        /\ runs[r].position = 3
        /\ runs[q].position = 3
        /\ DictGet(heap[runs[r].variables], <<"c", "o", "u", "n", "t">>) = PyInt(1)
        /\ DictGet(heap[runs[q].variables], <<"c", "o", "u", "n", "t">>) = PyInt(2)


\* ---------------------------------------------------------------- C39
\* What a step that ends in a rejection leaves of the limiter's record: a
\* 413 leaves it as it was, a 429 leaves the rejected client's timestamps
\* of the current window and nothing else, so that at every later time the
\* timestamps counted for the client are those counted had it not asked.
C39_Rejected ==
    resp'.status \in {"413", "429"} =>
        /\ recent' = recent
        /\ resp'.status = "413" => requests' = requests
        /\ \A c \in Clients :
              /\ c # resp'.client => requests'[c] = requests[c]
              /\ requests'[c] \in {requests[c], Pruned(requests[c], now)}
              /\ \A t \in now'..(MaxTime + WindowTicks) :
                    Pruned(requests'[c], t) = Pruned(requests[c], t)

\* C39: a request rejected with 429 or with 413 records no timestamp for
\* the client; it changes the limiter's record by pruning only, so it does
\* not count against the quota and does not postpone the client's next
\* admission.
C39_RejectionsNotCounted == [][C39_Rejected]_vars

\* A client over its quota has been rejected after requests of an earlier
\* window were pruned: its record holds the admitted requests of the
\* window only.
C39_Witness ==
    /\ resp.status = "429"
    /\ Len(recent[resp.client]) = RATE_LIMIT_REQUESTS + 1
    /\ Len(requests[resp.client]) = RATE_LIMIT_REQUESTS
    /\ \A i \in DOMAIN requests[resp.client] :
          requests[resp.client][i] = recent[resp.client][i + 1]

\* ---------------------------------------------------------------- C40
\* C40: a client answered 429 with Retry-After = r that has sent nothing
\* since, r seconds or more after the answer, is admitted.
C40_RetryHint ==
    (/\ resp.status = "429"
     /\ now >= SeqMin(requests[resp.client]) + resp.age + resp.retry_after * TicksPerSecond)
        => ENABLED AdmittedRequest(resp.client, "/execute")

\* The part of C40 that holds: one second more than the hint is enough.
C40_RetryHintPlusOne ==
    (/\ resp.status = "429"
     /\ now >= SeqMin(requests[resp.client]) + resp.age
                  + (resp.retry_after + 1) * TicksPerSecond)
        => ENABLED AdmittedRequest(resp.client, "/execute")

\* A client was told to retry after r seconds, waited r seconds without a
\* request, and its oldest counted request is still in the window.
C40_HintTooShort ==
    /\ resp.status = "429"
    /\ now = SeqMin(requests[resp.client]) + resp.age + resp.retry_after * TicksPerSecond
    /\ LimitReached(Pruned(requests[resp.client], now))


\* ---------------------------------------------------------------- C31
\* C31: a leaf block handed to its handler receives _loop exactly when the
\* loop driver called it as a child in an iteration; _loop then holds the
\* iteration number and the items of that loop's state, and for a forEach
\* loop its item is the item at that index. While the driver runs,
\* current_loop_id is the loop's id; before it and after it has left,
\* current_loop_id is what it was before the loop started.
C31_LoopScope ==
    /\ pc = "attempt" =>
          /\ blk._loop.present <=> blk.caller = "loop"
          /\ blk._loop.present =>
                LET state == loop_states[loop.id]
                IN  /\ blk.id \in loop_children(loop.id)
                    /\ blk._loop.index = state.iteration
                    /\ blk._loop.items = state.items
                    /\ IF state.loop_type = "forEach"
                       THEN blk._loop.item = state.items[blk._loop.index + 1]
                       ELSE blk._loop.item = NoItem
    /\ (pc \in {"loop_check", "loop_body"} \/ (pc = "attempt" /\ blk.caller = "loop"))
          => current_loop_id = loop.id
    /\ (pc \in {"init", "run", "done"} \/ (pc = "attempt" /\ blk.caller = "run"))
          => current_loop_id = loop.prev_loop_id

\* A top-level block is with its handler after a loop that ran iterations
\* with a child: it has no _loop.
C31_Witness ==
    /\ pc = "attempt"
    /\ blk.caller = "run"
    /\ ~blk._loop.present
    /\ \E l \in FinishedIds({"loop"}) :
          /\ loop_states[l].iteration >= 2
          /\ loop_children(l) \cap FinishedIds({"leaf"}) # {}


\* ---------------------------------------------------------------- C32
\* The blocks whose parentId names a block of the document that is a loop
\* container
LoopChildren == UNION {loop_children(l) : l \in Ids}

\* C32: a block whose parentId names an existing loop container is never in
\* the top-level order and is called by that container's loop driver only;
\* a block whose parentId is absent, names no block of the document or names
\* a block that is no loop container is a top-level block: it is in the
\* order run computes whenever the edges between top-level blocks let it be
\* scheduled, and it is never called by a loop driver.
C32_ParentScope ==
    LET children == LoopChildren
        top == TopLevel
    IN  /\ Range(execution_order) \cap children = {}
        /\ loop.id # NoId => loop.id \notin children
        /\ \A i \in DOMAIN hist.finished :
              hist.finished[i].how = "loop" => hist.finished[i].id \notin children
        /\ blk.id # NoId =>
              /\ blk.caller = "run" => blk.id \notin children
              /\ blk.caller = "loop" => /\ blk.id \in loop_children(loop.id)
                                         /\ BlockOf(blk.id).parent_id = loop.id
        /\ \A b \in Ids :
              (\/ BlockOf(b).parent_id = NoId
               \/ BlockOf(b).parent_id \notin Ids
               \/ BlockOf(BlockOf(b).parent_id).type \notin LoopContainerTypes)
                 => /\ b \in top
                    /\ pc # "init" =>
                          (b \in Range(execution_order) <=> b \in Schedulable(top))
                    /\ pc = "done" => (b \in Executed <=> b \in Schedulable(top))

\* A finished run in which a child of a loop ran in its iterations and
\* blocks whose parentId names a missing block or a block that is no
\* container ran at top level.
C32_Witness ==
    /\ pc = "done"
    /\ \E b \in Ids :
          /\ BlockOf(b).parent_id # NoId
          /\ b \notin LoopChildren
          /\ Executions(b, {"leaf"}) = 1
    /\ \E l \in FinishedIds({"loop"}) :
          \E c \in loop_children(l) : Executions(c, {"leaf"}) >= 2


\* ---------------------------------------------------------------- C35
\* The bound the inputs of a loop container put on a while or doWhile loop
IterationsBound(inputs) ==
    Min(IF "iterations" \in DOMAIN inputs THEN inputs.iterations ELSE DEFAULT_ITERATIONS,
        MAX_LOOP_ITERATIONS)

\* C35: a while or doWhile loop has recorded, at every moment, no more
\* iterations than its `iterations` input (the default when the input is
\* absent), clamped to MAX_LOOP_ITERATIONS, each child has run at most that
\* many times, and the loop's output counts at most that many; once the
\* counter has reached the bound the continuation check answers false,
\* whatever the condition.
C35_WhileBounded ==
    /\ \A l \in DOMAIN loop_states :
          loop_states[l].loop_type \in {"while", "doWhile"} =>
              LET n == IterationsBound(BlockOf(l).inputs)
              IN  /\ loop_states[l].max_iterations = n
                  /\ loop_states[l].iteration <= n
                  /\ Len(loop_states[l].iteration_outputs) <= n
                  /\ \A c \in loop_children(l) : Executions(c, {"leaf", "no_handler"}) <= n
                  /\ l \in FinishedIds({"loop"}) =>
                        /\ block_outputs[NameOf(l)].totalIterations <= n
                        /\ Len(block_outputs[NameOf(l)].results) <= n
    /\ (/\ pc = "loop_check"
        /\ loop_states[loop.id].iteration >= loop_states[loop.id].max_iterations)
          => ~_should_continue_loop(loop_states[loop.id])

\* A while loop whose condition is always true and whose `iterations` input
\* is absent has finished after the default number of iterations, its child
\* having run in each.
C35_Witness ==
    \E l \in FinishedIds({"loop"}) :
        /\ BlockOf(l).inputs.loopType = "while"
        /\ BlockOf(l).inputs.condition.kind = "true"
        /\ "iterations" \notin DOMAIN BlockOf(l).inputs
        /\ loop_states[l].iteration = DEFAULT_ITERATIONS
        /\ \E c \in loop_children(l) : Executions(c, {"leaf"}) = DEFAULT_ITERATIONS


\* ---------------------------------------------------------------- C36
\* C36: in a finished run every top-level block that is neither on a cycle
\* nor behind one was executed exactly once; the top-level blocks were
\* executed in the order computed from the blocks and the edges alone,
\* before any block ran; so the branch a condition block selects changes
\* neither which blocks run nor their order.
C36_ConditionsDoNotGate ==
    pc = "done" =>
        LET top == TopLevel
            E == TopGraph(top)
        IN  /\ \A b \in top \ Descendants(OnCycle(top, E), E) :
                  Executions(b, {"leaf", "loop", "no_handler"}) = 1
            /\ \A b \in Ids : Executions(b, {"leaf", "loop", "no_handler"}) >= 1
                                 => b \in Range(execution_order) \cup LoopChildren
            /\ FinishedOf(top) = execution_order
            /\ \E q0 \in InitialQueues(top) :
                  execution_order = _get_execution_order(top, q0)

\* A finished run whose condition block selected the false branch, the
\* blocks at the end of its edges having run after it.
C36_Witness ==
    /\ pc = "done"
    /\ \E b \in FinishedIds({"leaf"}) :
          /\ _get_handler(BlockOf(b).type) = "condition"
          /\ DictGet(block_outputs[NameOf(b)], <<"r", "e", "s", "u", "l", "t">>) = PyBool(FALSE)
          /\ DictGet(block_outputs[NameOf(b)], <<"b", "r", "a", "n", "c", "h">>)
                = PyStr(<<"f", "a", "l", "s", "e">>)
          /\ Cardinality({i \in DOMAIN wf.edges : wf.edges[i].source = b}) = 2
          /\ \A i \in DOMAIN wf.edges :
                wf.edges[i].source = b =>
                    /\ wf.edges[i].target \in FinishedIds({"leaf"})
                    /\ Pos(execution_order, b) < Pos(execution_order, wf.edges[i].target)


\* ---------------------------------------------------------------- C38
\* The last execution of a leaf block with a handler: its log record has
\* success = false exactly when its last attempt raised; an attempt that
\* returned was the last one; the API and the function handler, which return
\* their errors, were invoked once.
C38_Logged ==
    /\ (blk.phase = "returned" /\ blk.handler # None) =>
          LET record == logs[Len(logs)]
              raised == Len(blk.answers) = blk.invocations
          IN  /\ record.blockId = blk.id
              /\ record.output = blk.output
              /\ record.success = ~raised
              /\ raised <=> DOMAIN blk.output = {"error", "retries"}
              /\ ~raised => /\ Len(blk.answers) = blk.invocations - 1
                            /\ Len(blk.sleeps) = blk.invocations - 1
              /\ blk.handler \in {"api", "function"} => blk.invocations = 1 /\ ~raised
    /\ \A i \in DOMAIN logs :
          logs[i].success = FALSE <=> DOMAIN logs[i].output = {"error", "retries"}

\* The step in which a handler returns a value ends the execution: the
\* value is the block's stored output and the output of a new log record
\* with success = true.
C38_Returned ==
    (pc = "attempt" /\ blk'.phase = "returned" /\ Len(blk'.answers) < blk'.invocations) =>
        /\ block_outputs'[NameOf(blk.id)] = blk'.output
        /\ logs' = Append(logs, logs'[Len(logs')])
        /\ logs'[Len(logs')].output = blk'.output
        /\ logs'[Len(logs')].success
        /\ blk'.invocations = blk.invocations + 1

\* C38: a leaf block's log record has success = false exactly when the last
\* handler attempt raised an exception; an error that the handler returns as
\* a value (API timeout or connection failure, agent provider error,
\* exception of function code) is stored as the block's output without a
\* retry and logged with success = true.
C38_SuccessIffReturned == []C38_Logged /\ [][C38_Returned]_vars

\* An API block whose request timed out: one invocation, the error stored
\* as its output and logged with success = true.
C38_Witness ==
    /\ blk.phase = "returned"
    /\ blk.handler = "api"
    /\ blk.invocations = 1
    /\ blk.output = ApiOutput("timeout")
    /\ "error" \in DOMAIN blk.output
    /\ logs[Len(logs)].success
    /\ block_outputs[NameOf(blk.id)] = ApiOutput("timeout")


\* ---------------------------------------------------------------- C37
RECURSIVE AloneWith(_, _, _, _)
\* The frame of a run of the document on `inputs` after its first k blocks,
\* the environment holding the workflow variables `variables`
AloneWith(document, inputs, variables, k) ==
    IF k = 0
    THEN [ctx |-> Context(inputs, variables, EmptyDict), logs |-> <<>>,
          final_output |-> PyNone]
    ELSE RunBlock(OrderedBlocks(document)[k], AloneWith(document, inputs, variables, k - 1))

\* The data of the response a finished run returned
ReturnedData(run) == DictGet(run.result.output, <<"d", "a", "t", "a">>)

\* C37: the document hands the caller's x through a variable to the data of
\* its response and names no other variable.  The data a run returns is the
\* x of its request as it was sent, also when x is a string written like a
\* reference, and is what the run returns under every other value of the
\* environment's variable.
C37_CallerDataLiteral ==
    \A r \in RequestIds :
        runs[r].state = "done" =>
            /\ ReturnedData(runs[r]) = DictGet(runs[r].inputs, <<"x">>)
            /\ \A v \in EnvironmentVariables :
                  runs[r].result.output =
                      AloneWith(workflow_data, runs[r].inputs, v,
                                Len(OrderedBlocks(workflow_data))).final_output

\* The part of C37 that holds: a request whose x is not written like a
\* reference gets x back, whatever the environment's variable.
C37_NumbersLiteral ==
    \A r \in RequestIds :
        (runs[r].state = "done" /\ DictGet(runs[r].inputs, <<"x">>).t = "int") =>
            /\ ReturnedData(runs[r]) = DictGet(runs[r].inputs, <<"x">>)
            /\ \A v \in EnvironmentVariables :
                  runs[r].result.output =
                      AloneWith(workflow_data, runs[r].inputs, v,
                                Len(OrderedBlocks(workflow_data))).final_output

\* A request whose x is the string <variable.secret> was answered with the
\* value of the environment's variable.
C37_SecretReturned ==
    \E r \in RequestIds :
        /\ runs[r].state = "done"
        /\ DictGet(runs[r].inputs, <<"x">>) = PyStr(<<"<", "v", "a", "r", "i", "a", "b", "l", "e", ".", "s", "e", "c", "r", "e", "t", ">">>)
        /\ DictGet(startup.workflow_vars, <<"s", "e", "c", "r", "e", "t">>) = PyInt(7)
        /\ ReturnedData(runs[r]) = PyInt(7)


\* ---------------------------------------------------------------- C33
\* The statements that write into an object reached through `context`
WritesThrough(code) == {i \in DOMAIN code : code[i].op = "set" /\ code[i].k2 # <<>>}

\* The last value the code gave __return__, or {executed: True}
ReturnChannel(code) ==
    LET returns == {i \in DOMAIN code : code[i].op = "return"}
    IN  IF returns = {} THEN ExecutedOutput
        ELSE code[CHOOSE i \in returns : \A j \in returns : j <= i].value

\* The function block left the variables and the outputs of the other
\* blocks as they were and returned through its return value: nothing left
\* execute but its output, which is an {error, ...} mapping if the code
\* raised or did not compile and the value of __return__ or {executed: True}
\* otherwise
ReturnedOnly ==
    /\ ~ret.propagates
    /\ heap[args.ctx.workflow_variables] = args.objects[args.ctx.workflow_variables]
    /\ \A k \in DOMAIN args.ctx.block_outputs :
          /\ ret.ctx.block_outputs[k] = args.ctx.block_outputs[k]
          /\ heap[args.ctx.block_outputs[k]] = args.objects[args.ctx.block_outputs[k]]
    /\ \/ HasKey(ret.value, <<"e", "r", "r", "o", "r">>)
       \/ /\ \A i \in DOMAIN args.code : args.code[i].op \notin {"raise", "garbage"}
          /\ ret.value = ReturnChannel(args.code)

\* C33: whatever the code of a function block does, the writes into the
\* `context` mapping it is given included, the workflow variables and the
\* stored outputs of the other blocks are afterwards what they were, the
\* block's output is the value of __return__ or {executed: True}, and an
\* exception in the code becomes an {error, ...} output and does not
\* propagate.
C33_ReturnChannelOnly ==
    (args.fn = "function" /\ ret.done) => ReturnedOnly

\* The part of C33 that holds: code that only rebinds the keys of `context`,
\* sets locals and __return__ and raises exceptions derived from Exception.
C33_RebindingIgnored ==
    (/\ args.fn = "function"
     /\ ret.done
     /\ \A i \in DOMAIN args.code : args.code[i] # Statement("raise", <<"S", "y", "s", "t", "e", "m", "E", "x", "i", "t">>, <<>>, PyStr(<<"3">>))
     /\ \/ WritesThrough(args.code) = {}
        \/ \E i \in DOMAIN args.code : args.code[i].op = "garbage")
        => ReturnedOnly

\* context['variable']['secret'] = 9 ran and the workflow variable secret,
\* which was 7, is 9; the block's output is {executed: True}.
C33_VariableOverwritten ==
    /\ args.fn = "function"
    /\ ret.done
    /\ args.code = <<Statement("set", <<"v", "a", "r", "i", "a", "b", "l", "e">>, <<"s", "e", "c", "r", "e", "t">>, PyInt(9))>>
    /\ DictGet(args.objects[args.ctx.workflow_variables], <<"s", "e", "c", "r", "e", "t">>) = PyInt(7)
    /\ DictGet(heap[ret.ctx.workflow_variables], <<"s", "e", "c", "r", "e", "t">>) = PyInt(9)
    /\ ret.value = ExecutedOutput

\* context['Prev']['v'] = 9 ran and the output stored for the block Prev,
\* under both its keys, has v = 9.
C33_OutputOverwritten ==
    /\ args.fn = "function"
    /\ ret.done
    /\ args.code = <<Statement("set", <<"P", "r", "e", "v">>, <<"v">>, PyInt(9))>>
    /\ <<"p", "r", "e", "v">> \in DOMAIN ret.ctx.block_outputs
    /\ DictGet(heap[ret.ctx.block_outputs[<<"p", "r", "e", "v">>]], <<"v">>) = PyInt(9)
    /\ DictGet(heap[ret.ctx.block_outputs[<<"P", "r", "e", "v">>]], <<"v">>) = PyInt(9)

\* raise SystemExit(3) left execute.
C33_Propagated ==
    /\ args.fn = "function"
    /\ ret.done
    /\ ret.propagates
    /\ ret.exception.type = <<"S", "y", "s", "t", "e", "m", "E", "x", "i", "t">>


\* ---------------------------------------------------------------- C34
\* The history of the step's iteration with the results of its tools, before
\* it is pruned: what the history held, the reply, the results
Grown == agent.messages
         \o <<Message("assistant", "reply", agent.iteration)>>
         \o ToolMessages(agent.provider, agent'.response.tool_uses, agent.iteration)

\* A tool turn of the Anthropic, OpenAI or Azure loop left a history of at
\* most MAX_MESSAGE_HISTORY messages as it was, and replaced a longer one by
\* its first message, a user message that counts the messages left out, and
\* its MAX_MESSAGE_HISTORY - 1 most recent messages
C34_Turn ==
    (/\ agent.provider \notin {"google", "vertex"}
     /\ agent.pc = "loop"
     /\ agent'.iteration = agent.iteration + 1)
        => IF Len(Grown) <= MAX_MESSAGE_HISTORY
           THEN agent'.messages = Grown
           ELSE /\ Len(agent'.messages) = MAX_MESSAGE_HISTORY + 1
                /\ agent'.messages[1] = Grown[1]
                /\ agent'.messages[2] = Message("user", "omitted", Len(Grown) - MAX_MESSAGE_HISTORY)
                /\ \A j \in 1..(MAX_MESSAGE_HISTORY - 1) :
                      agent'.messages[2 + j] = Grown[Len(Grown) - (MAX_MESSAGE_HISTORY - 1) + j]

\* The first message of the history is the user's request
C34_FirstKept == agent.messages # <<>> => agent.messages[1] = UserRequest

====
